---- MODULE Spec2Model ----
(***************************************************************************)
(* A model of the DNS detection / replication / migration core of the      *)
(* Cloudflare MCP server (api.ts, types.ts).                                *)
(*                                                                         *)
(* Strings the code takes apart (resolver data, record names) are          *)
(* sequences of one-character strings; identifiers the code only compares  *)
(* or interpolates (zone ids, tokens) are TLA+ strings; an error message    *)
(* is the sequence of the segments its template literals concatenate.      *)
(***************************************************************************)
EXTENDS Integers, Sequences, FiniteSets, TLC

VARIABLES
    cloudflareConfig,   \* the module-level configuration record (api.ts)
    op,                 \* the exported operation being executed, "none" when idle
    args,               \* its arguments
    pc,                 \* position of the invocation (one value per await)
    i,                  \* index of the next resolver probe (1..15)
    detectedRecords,    \* detectDnsRecords: the local detectedRecords
    targetZone,         \* replicateDnsRecords: targetZoneId as passed to importDnsRecords
    validatedRecords,   \* importDnsRecords: validatedRecords; importZoneFile: records
    j,                  \* index of the record of the for loop over them
    createdRecords,     \* importDnsRecords: createdRecords; importZoneFile: importedRecords
    zone,               \* migrateDomainWithDetection: the local zone
    result,             \* what the operation returned (or threw)
    queries,            \* log: every resolver request sent, in order
    answered,           \* log: the answer-carrying responses of the resolver
    calls,              \* log: every request sent to the provider API, in order
    createFailed,       \* log: how many createDnsRecord attempts of this run threw
    issues,             \* validateZoneSetup: the local issues
    dnsRecords,         \* what listDnsRecords returned to exportZoneFile / validateZoneSetup
    delivered,          \* log: the results the provider delivered, by call
    lastResponse,       \* log: the provider's response to the latest call
    importErrors        \* importZoneFile: the local errors

vars == <<cloudflareConfig, op, args, pc, i, detectedRecords, targetZone,
          validatedRecords, j, createdRecords, zone, result, queries,
          answered, calls, createFailed, issues, dnsRecords, delivered,
          lastResponse, importErrors>>

toolVars == <<issues, dnsRecords, importErrors>>

----------------------------------------------------------------------------
(* Bounds of the model *)

\* the resolver delivers at most this many answers during one standalone
\* detection
MaxAnswers == 2

----------------------------------------------------------------------------
(* JavaScript values *)

Undefined == [k |-> "undefined", v |-> 0]
NaN == [k |-> "NaN", v |-> 0]
Num(n) == [k |-> "number", v |-> n]

\* the sequences over S of length at most n
RECURSIVE SeqsUpTo(_, _)
SeqsUpTo(S, n) ==
    IF n = 0 THEN {<<>>}
    ELSE LET shorter == SeqsUpTo(S, n - 1)
         IN  shorter \cup {Append(q, x) : q \in shorter, x \in S}

\* x || d for an optional number x
OrElse(x, d) == IF x.k = "number" /\ x.v # 0 THEN x ELSE d

Digits == {"0", "1", "2", "3", "4", "5", "6", "7", "8", "9"}

DigitValue(c) ==
    CASE c = "0" -> 0 [] c = "1" -> 1 [] c = "2" -> 2 [] c = "3" -> 3
      [] c = "4" -> 4 [] c = "5" -> 5 [] c = "6" -> 6 [] c = "7" -> 7
      [] c = "8" -> 8 [] c = "9" -> 9

WhiteSpace == {" ", "\t", "\n", "\r"}

RECURSIVE TrimStart(_)
TrimStart(s) ==
    IF s # <<>> /\ Head(s) \in WhiteSpace THEN TrimStart(Tail(s)) ELSE s

\* the value of the longest prefix of digits of s, from the accumulator acc
RECURSIVE DigitsValue(_, _)
DigitsValue(s, acc) ==
    IF s # <<>> /\ Head(s) \in Digits
    THEN DigitsValue(Tail(s), 10 * acc + DigitValue(Head(s)))
    ELSE acc

\* parseInt(s): leading white space, an optional sign, the longest prefix of
\* digits; NaN when there is no digit
parseInt(s) ==
    LET t == TrimStart(s)
        signed == t # <<>> /\ Head(t) \in {"+", "-"}
        u == IF signed THEN Tail(t) ELSE t
    IN  IF u = <<>> \/ Head(u) \notin Digits THEN NaN
        ELSE IF signed /\ Head(t) = "-" THEN Num(0 - DigitsValue(u, 0))
        ELSE Num(DigitsValue(u, 0))

\* s.includes(c)
Includes(s, c) == \E n \in 1..Len(s) : s[n] = c

\* s.split(c)[0]
RECURSIVE FirstToken(_, _)
FirstToken(s, c) ==
    IF s = <<>> \/ Head(s) = c THEN <<>>
    ELSE <<Head(s)>> \o FirstToken(Tail(s), c)

----------------------------------------------------------------------------
(* Detection: the fixed tables *)

recordTypes == <<"A", "AAAA", "CNAME", "MX", "TXT", "NS", "SRV", "CAA">>

commonSubdomains ==
    << <<"w", "w", "w">>, <<"m", "a", "i", "l">>, <<"f", "t", "p">>,
       <<"b", "l", "o", "g">>, <<"s", "h", "o", "p">>, <<"a", "p", "i">>,
       <<"a", "d", "m", "i", "n">> >>

getDnsTypeNumber_swapped(type) ==
    CASE type = "A" -> 1 [] type = "AAAA" -> 28 [] type = "CNAME" -> 5
      [] type = "MX" -> 15 [] type = "TXT" -> 16 [] type = "NS" -> 33
      [] type = "SRV" -> 2 [] type = "CAA" -> 257 [] OTHER -> 1

getDnsTypeNumber(type) ==
    CASE type = "A" -> 1 [] type = "AAAA" -> 28 [] type = "CNAME" -> 5
      [] type = "MX" -> 15 [] type = "TXT" -> 16 [] type = "NS" -> 2
      [] type = "SRV" -> 33 [] type = "CAA" -> 257 [] OTHER -> 1

\* `${subdomain}.${domain}`
subdomainName(subdomain, domain) == subdomain \o <<".">> \o domain

----------------------------------------------------------------------------
(* The public resolver (dns.google/resolve), as the code sees it *)

\* the numeric code the DNS gives each record type (what the resolver puts in
\* the "type" field of an answer)
RRCode(type) ==
    CASE type = "A" -> 1 [] type = "NS" -> 2 [] type = "CNAME" -> 5
      [] type = "MX" -> 15 [] type = "TXT" -> 16 [] type = "AAAA" -> 28
      [] type = "SRV" -> 33 [] type = "CAA" -> 257

\* the data of the answers the modelled resolver can give
DataPlain == <<"1", ".", "2">>
DataPriority == <<"1", "0", " ", "m">>
DataText == <<"v", " ", "-", "a">>
DataSpaced == <<"1", " ", "2">>

\* answers of the queried type
MatchingAnswers(qtype) ==
    { [type |-> RRCode(qtype), data |-> DataPlain, TTL |-> Num(60)],
      [type |-> RRCode(qtype), data |-> DataPriority, TTL |-> Undefined],
      [type |-> RRCode(qtype), data |-> DataText, TTL |-> Num(0)] }

\* an answer of another type than the queried one (a CNAME in front of the
\* answers of an alias, or the A record of the alias' target)
ForeignAnswer(qtype) ==
    [type |-> IF qtype = "CNAME" THEN 1 ELSE 5, data |-> DataSpaced,
     TTL |-> Num(60)]

NoJson(kind) == [kind |-> kind, Status |-> 0, hasAnswer |-> FALSE, Answer |-> <<>>]
Json(status, hasAnswer, answer) ==
    [kind |-> "json", Status |-> status, hasAnswer |-> hasAnswer, Answer |-> answer]

\* fetch rejects; response.json() rejects; Status # 0; no Answer member; an
\* empty Answer array
AnswerFreeResponses ==
    { NoJson("transport"), NoJson("badjson"), Json(3, FALSE, <<>>),
      Json(0, FALSE, <<>>), Json(0, TRUE, <<>>) }

\* the responses that carry answers, for a standalone detection: any one
\* answer, two answers, and answers under a Status that is not 0
AnswerResponses(qtype) ==
    LET pool == MatchingAnswers(qtype) \cup {ForeignAnswer(qtype)}
        plain == [type |-> RRCode(qtype), data |-> DataPlain, TTL |-> Num(60)]
    IN  { Json(0, TRUE, <<a>>) : a \in pool }
        \cup { Json(0, TRUE, <<a, b>>) : a \in pool,
                                         b \in {plain, ForeignAnswer(qtype)} }
        \cup { Json(3, TRUE, <<plain>>) }

RECURSIVE TotalAnswers(_)
TotalAnswers(log) ==
    IF log = <<>> THEN 0 ELSE Len(Head(log).Answer) + TotalAnswers(Tail(log))

\* the records of the source domain of a replication: an A, an MX and a TXT
\* record at the apex, and an A record for www; the domain of a migration has
\* three A records, at the apex, for www and for mail
SourceRecords(name, qtype, domain) ==
    IF op = "migrate"
    THEN IF qtype = "A" /\ name \in {domain, <<"w", "w", "w", ".">> \o domain,
                                      <<"m", "a", "i", "l", ".">> \o domain}
         THEN <<[type |-> RRCode(qtype), data |-> DataPlain, TTL |-> Num(60)]>>
         ELSE <<>>
    ELSE IF name = domain /\ qtype = "A"
    THEN <<[type |-> RRCode(qtype), data |-> DataPlain, TTL |-> Num(60)]>>
    ELSE IF name = domain /\ qtype = "MX"
    THEN <<[type |-> RRCode(qtype), data |-> DataPriority, TTL |-> Undefined]>>
    ELSE IF name = domain /\ qtype = "TXT"
    THEN <<[type |-> RRCode(qtype), data |-> DataText, TTL |-> Num(0)]>>
    ELSE IF name = <<"w", "w", "w", ".">> \o domain /\ qtype = "A"
    THEN <<[type |-> RRCode(qtype), data |-> DataPlain, TTL |-> Num(60)]>>
    ELSE <<>>

\* what the resolver may respond to a probe: a standalone detection is
\* explored with arbitrary answers (at most MaxAnswers of them), a replication
\* or migration with the records of the source domain
ResolverResponses(name, qtype, domain, rich, log) ==
    AnswerFreeResponses
    \cup IF rich
         THEN { r \in AnswerResponses(qtype) :
                  TotalAnswers(log) + Len(r.Answer) <= MaxAnswers }
         ELSE { Json(0, TRUE, SourceRecords(name, qtype, domain)) }

----------------------------------------------------------------------------
(* detectDnsRecords *)

Map(s, F(_)) == [n \in 1..Len(s) |-> F(s[n])]

\* the answers the for loop iterates over: none when fetch or json() threw
\* (the catch of the iteration) or when the if of the iteration is false
UsableAnswers_anyStatus(resp) ==
    IF resp.kind = "json" /\ resp.hasAnswer THEN resp.Answer ELSE <<>>

UsableAnswers(resp) ==
    IF resp.kind = "json" /\ resp.Status = 0 /\ resp.hasAnswer
    THEN resp.Answer ELSE <<>>

BaseDescriptor_mxOnly(recordType, domain, answer) ==
    [type |-> recordType, name |-> domain, content |-> answer.data,
     ttl |-> OrElse(answer.TTL, Num(300)),
     priority |-> IF recordType = "MX"
                  THEN parseInt(FirstToken(answer.data, " ")) ELSE Undefined,
     proxied |-> FALSE]

BaseDescriptor(recordType, domain, answer) ==
    [type |-> recordType, name |-> domain, content |-> answer.data,
     ttl |-> OrElse(answer.TTL, Num(300)),
     priority |-> IF Includes(answer.data, " ")
                  THEN parseInt(FirstToken(answer.data, " ")) ELSE Undefined,
     proxied |-> FALSE]

SubdomainDescriptor_proxied(name, answer) ==
    [type |-> "A", name |-> name, content |-> answer.data,
     ttl |-> OrElse(answer.TTL, Num(300)), proxied |-> TRUE]

SubdomainDescriptor(name, answer) ==
    [type |-> "A", name |-> name, content |-> answer.data,
     ttl |-> OrElse(answer.TTL, Num(300)), proxied |-> FALSE]

\* what one iteration of the first loop pushes
BaseDescriptors(recordType, domain, resp) ==
    LET accepted == SelectSeq(UsableAnswers(resp),
                        LAMBDA a : a.type = getDnsTypeNumber(recordType))
    IN  Map(accepted, LAMBDA a : BaseDescriptor(recordType, domain, a))

\* what one iteration of the second loop pushes
SubdomainDescriptors(name, resp) ==
    LET accepted == SelectSeq(UsableAnswers(resp), LAMBDA a : a.type = 1)
    IN  Map(accepted, LAMBDA a : SubdomainDescriptor(name, a))

\* detectedRecords.push(...)
Push_front(records, pushed) == pushed \o records

Push(records, pushed) == records \o pushed

NumProbes == Len(recordTypes) + Len(commonSubdomains)

\* the name and the type the probe number n asks for
ProbeName(n, domain) ==
    IF n <= Len(recordTypes) THEN domain
    ELSE subdomainName(commonSubdomains[n - Len(recordTypes)], domain)

ProbeType(n) == IF n <= Len(recordTypes) THEN recordTypes[n] ELSE "A"

Rich == op = "detect"

\* the entry of detectDnsRecords
EnterDetect ==
    /\ pc' = "probe"
    /\ i' = 1
    /\ detectedRecords' = <<>>

\* the bookkeeping of one probe: the request, the response, the next position
Probed(resp) ==
    /\ queries' = Append(queries, [name |-> ProbeName(i, args.domain),
                                   type |-> ProbeType(i)])
    /\ answered' = IF resp.Answer = <<>> THEN answered
                   ELSE Append(answered, [probe |-> i, Status |-> resp.Status,
                                          Answer |-> resp.Answer])
    /\ i' = i + 1
    /\ pc' = IF i = NumProbes THEN "detected" ELSE "probe"

\* one iteration of the loop over recordTypes
ProbeBase ==
    /\ pc = "probe"
    /\ i <= Len(recordTypes)
    /\ \E resp \in ResolverResponses(args.domain, recordTypes[i],
                                      args.domain, Rich, answered) :
          /\ detectedRecords' =
                Push(detectedRecords,
                     BaseDescriptors(recordTypes[i], args.domain, resp))
          /\ Probed(resp)
    /\ UNCHANGED <<cloudflareConfig, op, args, targetZone, validatedRecords, j,
                   createdRecords, zone, result, calls, createFailed>>
    /\ UNCHANGED toolVars
    /\ UNCHANGED delivered
    /\ UNCHANGED lastResponse

\* one iteration of the loop over commonSubdomains
ProbeSubdomain ==
    /\ pc = "probe"
    /\ i > Len(recordTypes)
    /\ \E resp \in ResolverResponses(ProbeName(i, args.domain), "A",
                                      args.domain, Rich, answered) :
          /\ detectedRecords' =
                Push(detectedRecords,
                     SubdomainDescriptors(ProbeName(i, args.domain), resp))
          /\ Probed(resp)
    /\ UNCHANGED <<cloudflareConfig, op, args, targetZone, validatedRecords, j,
                   createdRecords, zone, result, calls, createFailed>>
    /\ UNCHANGED toolVars
    /\ UNCHANGED delivered
    /\ UNCHANGED lastResponse

----------------------------------------------------------------------------
(* types.ts: the zod schemas *)

DnsRecordType == {"A", "AAAA", "CNAME", "MX", "TXT", "NS", "SRV", "CAA", "PTR"}

\* o.key, undefined when the object has no such member
Member(o, key) == IF key \in DOMAIN o THEN o[key] ELSE Undefined

\* z.number().optional(): a number that is not NaN, or undefined
OptionalNumber(x) == x.k \in {"number", "undefined"}

\* z.object strips the members the schema does not name
Strip(o, keys) == [key \in (DOMAIN o) \cap keys |-> o[key]]

\* DnsRecordImport.safeParse(record).success
DnsRecordImportValid(record) ==
    /\ {"type", "name", "content"} \subseteq DOMAIN record
    /\ record.type \in DnsRecordType
    /\ OptionalNumber(Member(record, "ttl"))
    /\ OptionalNumber(Member(record, "priority"))

\* CreateDnsRecordRequest.safeParse(record).success
CreateDnsRecordRequestValid(record) ==
    /\ {"type", "name", "content"} \subseteq DOMAIN record
    /\ record.type \in DnsRecordType
    /\ OptionalNumber(Member(record, "ttl"))
    /\ OptionalNumber(Member(record, "priority"))

CloudflareDnsRecordKeys ==
    {"id", "zone_id", "zone_name", "name", "type", "content", "proxied",
     "ttl", "priority", "created_on", "modified_on", "meta"}

\* CloudflareDnsRecord.safeParse(o).success
CloudflareDnsRecordValid(o) ==
    /\ {"id", "name", "type", "content", "ttl", "created_on", "modified_on"}
          \subseteq DOMAIN o
    /\ o.type \in DnsRecordType
    /\ o.ttl.k = "number"
    /\ OptionalNumber(Member(o, "priority"))

CloudflareZoneKeys ==
    {"id", "name", "status", "paused", "type", "development_mode",
     "name_servers", "original_name_servers", "original_registrar",
     "original_dnshost", "modified_on", "created_on", "activated_on", "meta",
     "owner", "account", "permissions", "plan"}

\* CloudflareZone.safeParse(o).success
CloudflareZoneValid(o) ==
    /\ {"id", "name", "status", "paused", "type", "development_mode",
        "name_servers", "modified_on", "created_on"} \subseteq DOMAIN o
    /\ o.status \in {"active", "pending", "initializing", "moved", "deleted",
                     "deactivated"}
    /\ o.type \in {"full", "partial"}

\* CreateZoneRequest.safeParse(zoneData).success
CreateZoneRequestValid(zoneData) == zoneData.type \in {"full", "partial"}

\* the result member of the envelope: absent, null, one object or an array
NoResult == [kind |-> "undefined", items |-> <<>>]
NullResult == [kind |-> "null", items |-> <<>>]
ObjectResult(o) == [kind |-> "object", items |-> <<o>>]
ArrayResult(os) == [kind |-> "array", items |-> os]

\* CloudflareApiResponse.safeParse(body).success: the union of the result
\* admits an array of DNS records, one DNS record, or null
CloudflareApiResponseValid(body) ==
    /\ body.wellFormed
    /\ \/ body.result.kind \in {"undefined", "null"}
       \/ \A n \in 1..Len(body.result.items) :
             CloudflareDnsRecordValid(body.result.items[n])

\* the result member of CloudflareApiResponse.parse(body)
ParsedResult(body) ==
    [kind |-> body.result.kind,
     items |-> Map(body.result.items,
                   LAMBDA o : Strip(o, CloudflareDnsRecordKeys))]

ZodError == <<"ZodError">>
SyntaxError == <<"SyntaxError">>

----------------------------------------------------------------------------
(* An awaited call either returns a value or throws a message *)

Returned(x) == [threw |-> FALSE, value |-> <<x>>, error |-> <<>>]
Threw(message) == [threw |-> TRUE, value |-> <<>>, error |-> message]
ValueOf(outcome) == outcome.value[1]

\* array.join(separator) of messages, as a message
RECURSIVE Join(_, _)
Join(strings, separator) ==
    IF strings = <<>> THEN <<>>
    ELSE IF Len(strings) = 1 THEN <<Head(strings)>>
    ELSE <<Head(strings), separator>> \o Join(Tail(strings), separator)

----------------------------------------------------------------------------
(* api.ts: configuration, getHeaders, api *)

Unconfigured == [apiToken |-> "", zoneId |-> ""]
ConfigA == [apiToken |-> "tokenA", zoneId |-> "zoneA"]
ConfigB == [apiToken |-> "tokenB", zoneId |-> "zoneB"]

getHeaders_noCheck(config) == Returned([Authorization |-> config.apiToken])

\* getHeaders()
getHeaders(config) ==
    IF config.apiToken = ""
    THEN Threw(<<"Cloudflare API Token not configured">>)
    ELSE Returned([Authorization |-> config.apiToken])

\* the catch of api(): every Error is wrapped, an abort is renamed
ApiCatch(error) ==
    IF error = <<"AbortError">>
    THEN Threw(<<"Cloudflare API request timed out">>)
    ELSE Threw(<<"Cloudflare API error: ">> \o error)

\* api() up to the call of fetch: the request it sends, or what it throws
ApiRequest(endpoint, method, body, useZoneId, config) ==
    IF useZoneId /\ config.zoneId = ""
    THEN ApiCatch(<<"Cloudflare Zone ID not configured">>)
    ELSE IF getHeaders(config).threw
    THEN ApiCatch(getHeaders(config).error)
    ELSE Returned([zone |-> IF useZoneId THEN config.zoneId ELSE "",
                   endpoint |-> endpoint, method |-> method,
                   token |-> config.apiToken, body |-> body])

\* api() from the settling of fetch: the response it returns, or what it throws
ApiResponse(fetched) ==
    IF fetched.fetch = "abort" THEN ApiCatch(<<"AbortError">>)
    ELSE IF fetched.fetch = "network" THEN ApiCatch(<<"fetch failed">>)
    ELSE IF ~fetched.ok
    THEN ApiCatch(<<"Cloudflare API error: ", fetched.status>>)
    ELSE Returned(fetched)

\* `API Error: ${data.errors.map((e) => e.message).join(", ")}`
ApiErrorMessage(body) == <<"API Error: ">> \o Join(body.errors, ", ")

----------------------------------------------------------------------------
(* The provider API (api.cloudflare.com), as the code sees it *)

\* the domain the operations are invoked for
Domain == <<"e", "x", ".", "i", "o">>

Envelope(wellFormed, success, errors, res) ==
    [wellFormed |-> wellFormed, success |-> success, errors |-> errors,
     result |-> res]

Fetched(how, ok, status, json, body) ==
    [fetch |-> how, ok |-> ok, status |-> status, json |-> json, body |-> body]

NoBody == Envelope(FALSE, FALSE, <<>>, NoResult)

\* the record the provider stores for a create request, numbered id
ProviderRecord(request, id) ==
    [key \in {"id", "zone_id", "created_on", "modified_on"}
         \cup DOMAIN request.body |->
        CASE key = "id" -> id
          [] key = "zone_id" -> request.zone
          [] key \in {"created_on", "modified_on"} -> "t0"
          [] OTHER -> request.body[key]]

\* the zone the provider creates for a create-zone request
ProviderZone(request) ==
    [id |-> "zoneNew", name |-> request.body.name, status |-> "pending",
     paused |-> FALSE, type |-> request.body.type, development_mode |-> 0,
     name_servers |-> <<"ns1", "ns2">>, created_on |-> "t0",
     modified_on |-> "t0"]

\* what the provider stores when it accepts the request
Stored(request, id) ==
    IF request.endpoint = "zones" THEN ProviderZone(request)
    ELSE ProviderRecord(request, id)

\* the zones of the account: a zone in order, a pending zone without
\* records, and a moved zone without name servers
ZoneIds == {"zoneA", "zoneB", "zoneC"}

\* `zones/${targetZoneId}`
ZonePath(id) ==
    CASE id = "zoneA" -> "zones/zoneA" [] id = "zoneB" -> "zones/zoneB"
      [] id = "zoneC" -> "zones/zoneC" [] OTHER -> "zones/zoneNew"

ZoneOfPath(endpoint) ==
    CHOOSE id \in ZoneIds \cup {"zoneNew"} : ZonePath(id) = endpoint

AccountZone(id) ==
    [id |-> id,
     name |-> CASE id = "zoneA" -> Domain
                [] id = "zoneB" -> <<"b", ".", "i", "o">>
                [] OTHER -> <<"c", ".", "i", "o">>,
     status |-> CASE id = "zoneA" -> "active" [] id = "zoneB" -> "pending"
                  [] OTHER -> "moved",
     paused |-> FALSE, type |-> "full", development_mode |-> 0,
     name_servers |-> IF id \in {"zoneA", "zoneB"} THEN <<"ns1", "ns2">>
                      ELSE <<>>,
     created_on |-> "t0", modified_on |-> "t0"]

AccountRecord(id, zoneId, type, name, content, ttl) ==
    [id |-> id, zone_id |-> zoneId, type |-> type, name |-> name,
     content |-> content, ttl |-> Num(ttl), proxied |-> FALSE,
     created_on |-> "t0", modified_on |-> "t0"]

AccountRecords(id) ==
    CASE id = "zoneA" ->
           <<AccountRecord("r1", id, "A", Domain, DataPlain, 300),
             AccountRecord("r2", id, "A", <<"w", "w", "w", ".">> \o Domain,
                           DataPlain, 60)>>
      [] id = "zoneC" ->
           <<AccountRecord("r3", id, "A", <<"c", ".", "i", "o">>, DataPlain, 1)>>
      [] OTHER -> <<>>

\* the results of the success envelopes: for a create request the stored
\* object, alone or in an array; for the list request the records of the
\* addressed zone; for a get-zone request the zone; or null
Results(request, id) ==
    IF request.method = "POST"
    THEN {NullResult, ArrayResult(<<Stored(request, id)>>),
          ObjectResult(Stored(request, id))}
    ELSE IF request.endpoint = "dns_records"
    THEN {NullResult, ArrayResult(AccountRecords(request.zone))}
    ELSE {NullResult, ObjectResult(AccountZone(ZoneOfPath(request.endpoint)))}

\* the ways a request can end: a timeout, a network error, an HTTP error status
\* (with the provider's error envelope), a body that is no JSON, a body that is
\* no envelope, a rejection, and the success envelopes
ProviderResponses(request, id) ==
    { Fetched("abort", FALSE, "", FALSE, NoBody),
      Fetched("network", FALSE, "", FALSE, NoBody),
      Fetched("response", FALSE, "403 Forbidden", TRUE,
              Envelope(TRUE, FALSE, <<"e1", "e2">>, NullResult)),
      Fetched("response", TRUE, "200 OK", FALSE, NoBody),
      Fetched("response", TRUE, "200 OK", TRUE,
              Envelope(FALSE, TRUE, <<>>, NoResult)),
      Fetched("response", TRUE, "200 OK", TRUE,
              Envelope(TRUE, FALSE, <<"e1", "e2">>, NullResult)) }
    \cup { Fetched("response", TRUE, "200 OK", TRUE,
                   Envelope(TRUE, TRUE, <<>>, res)) :
              res \in Results(request, id) }

\* no response yet
NoResponse == Fetched("none", FALSE, "", FALSE, NoBody)

\* what a response adds to the log of delivered results: the result of a
\* success envelope that carries one (an object or an array), with the number
\* of the call it answers
DeliveredBy(fetched, call) ==
    IF fetched.fetch = "response" /\ fetched.ok /\ fetched.json
       /\ fetched.body.wellFormed /\ fetched.body.success
       /\ fetched.body.result.kind \in {"object", "array"}
    THEN <<[call |-> call, result |-> fetched.body.result]>> ELSE <<>>

----------------------------------------------------------------------------
(* createDnsRecord, createZone *)

\* JSON.stringify(validatedRecord): ttl defaults to 1, undefined members are
\* not sent
RecordBody(record) ==
    [key \in {k \in DOMAIN record :
                 k \in {"ttl", "priority"} => record[k].k # "undefined"}
             \cup {"ttl"} |->
        IF key = "ttl" /\ Member(record, "ttl").k = "undefined" THEN Num(1)
        ELSE record[key]]

\* createDnsRecord up to the call of fetch
createDnsRecordRequest(record, config) ==
    IF ~CreateDnsRecordRequestValid(record) THEN Threw(ZodError)
    ELSE ApiRequest("dns_records", "POST", RecordBody(record), TRUE, config)

\* createDnsRecord from the settling of fetch
createDnsRecordResponse(fetched) ==
    IF ApiResponse(fetched).threw THEN ApiResponse(fetched)
    ELSE IF ~fetched.json THEN Threw(SyntaxError)
    ELSE IF ~CloudflareApiResponseValid(fetched.body) THEN Threw(ZodError)
    ELSE IF ~fetched.body.success THEN Threw(ApiErrorMessage(fetched.body))
    ELSE IF ParsedResult(fetched.body).kind # "object"
    THEN Threw(<<"Failed to create DNS record">>)
    ELSE Returned(ParsedResult(fetched.body).items[1])

\* createZone up to the call of fetch
createZoneRequest(zoneData, config) ==
    IF ~CreateZoneRequestValid(zoneData) THEN Threw(ZodError)
    ELSE ApiRequest("zones", "POST", zoneData, FALSE, config)

\* the try block of createZone
createZoneParse(body) ==
    IF ~CloudflareApiResponseValid(body) THEN Threw(ZodError)
    ELSE IF ~body.success THEN Threw(ApiErrorMessage(body))
    ELSE IF ParsedResult(body).kind # "object"
    THEN Threw(<<"Failed to create zone">>)
    ELSE IF ~CloudflareZoneValid(ParsedResult(body).items[1])
    THEN Threw(ZodError)
    ELSE Returned(Strip(ParsedResult(body).items[1], CloudflareZoneKeys))

\* createZone from the settling of fetch
createZoneResponse(fetched) ==
    IF ApiResponse(fetched).threw THEN ApiResponse(fetched)
    ELSE IF ~fetched.json THEN Threw(SyntaxError)
    ELSE IF createZoneParse(fetched.body).threw
    THEN Threw(<<"Failed to parse zone creation response: ">>
               \o createZoneParse(fetched.body).error)
    ELSE createZoneParse(fetched.body)

----------------------------------------------------------------------------
(* importDnsRecords, replicateDnsRecords, migrateDomainWithDetection *)

\* zoneId || cloudflareConfig.zoneId
TargetZoneId(zoneId, config) == IF zoneId # "" THEN zoneId ELSE config.zoneId

\* importDnsRecords up to its for loop: validatedRecords, or what it throws
ImportBegin(records, zoneId, config) ==
    IF TargetZoneId(zoneId, config) = ""
    THEN Threw(<<"Zone ID not provided and not configured">>)
    ELSE IF \E n \in 1..Len(records) : ~DnsRecordImportValid(records[n])
    THEN Threw(ZodError)
    ELSE Returned(records)

\* the createRecordData of one iteration; a proxied that is undefined is a
\* member left out, which Member reads as undefined and JSON.stringify drops
CreateRecordData(record) ==
    [key \in {"type", "name", "content", "ttl", "priority"}
              \cup ({"proxied"} \cap DOMAIN record) |->
        IF key = "ttl" THEN OrElse(Member(record, "ttl"), Num(1))
        ELSE Member(record, key)]

\* the three returns of replicateDnsRecords
NoRecordsResult_noError ==
    [detected |-> <<>>, replicated |-> <<>>, errors |-> <<>>]

NoRecordsResult ==
    [detected |-> <<>>, replicated |-> <<>>,
     errors |-> << <<"No DNS records detected for the domain">> >>]

ReplicateSuccess(detected, replicated) ==
    [detected |-> detected, replicated |-> replicated, errors |-> <<>>]

ReplicateFailure(error) ==
    [detected |-> <<>>, replicated |-> <<>>,
     errors |-> << <<"Failed to replicate DNS records: ">> \o error >>]

\* messages.join(separator)
RECURSIVE JoinMessages(_, _)
JoinMessages(messages, separator) ==
    IF messages = <<>> THEN <<>>
    ELSE IF Len(messages) = 1 THEN Head(messages)
    ELSE Head(messages) \o <<separator>>
         \o JoinMessages(Tail(messages), separator)

\* the return of the try block of migrateDomainWithDetection
MigrateSuccess(z, replication) ==
    [zone |-> z,
     detected |-> replication.detected,
     replicated |-> replication.replicated,
     errors |-> replication.errors,
     nextSteps |->
        << <<"1. Update your domain's nameservers at your registrar to: ">>
              \o Join(z.name_servers, ", "),
           <<"2. Monitor nameserver propagation using check_nameserver_propagation tool">>,
           <<"3. Validate setup using validate_zone_setup tool with zone ID: ", z.id>> >>
        \o IF Len(replication.errors) > 0
           THEN << <<"4. Review and fix any DNS record import errors: ">>
                   \o JoinMessages(replication.errors, ", ") >>
           ELSE <<>>]

\* {} as Zone
EmptyObject == <<>>

\* the return of the catch block of migrateDomainWithDetection
MigrateFailure_partial(error) ==
    [zone |-> [id |-> "zoneNew"], detected |-> <<>>, replicated |-> <<>>,
     errors |-> <<>>,
     nextSteps |-> << <<"Fix the errors and retry the migration">> >>]

MigrateFailure(error) ==
    [zone |-> EmptyObject, detected |-> <<>>, replicated |-> <<>>,
     errors |-> << <<"Migration failed: ">> \o error >>,
     nextSteps |-> << <<"Fix the errors and retry the migration">> >>]

----------------------------------------------------------------------------
(* The invocations *)

\* targetZoneId of replicate_dns_records: omitted, or a zone of the account
TargetZoneIds == {"", "zoneB"}

\* zoneType of migrate_domain_with_detection: omitted, or any string
ZoneTypes == {"", "full", "partial", "bogus"}

detectVars == <<i, detectedRecords, queries, answered>>
importVars == <<validatedRecords, j, createdRecords, createFailed>>

\* replicateDnsRecords returns replication; under migrateDomainWithDetection
\* the caller composes its own result from it; importDnsRecords called
\* directly returns its createdRecords
Finish(operation, replication) ==
    /\ pc' = "done"
    /\ result' = IF operation = "migrate"
                 THEN MigrateSuccess(zone, replication)
                 ELSE IF operation = "import"
                 THEN Returned(replication.replicated)
                 ELSE replication

\* the end of one iteration of the for loop of importDnsRecords
AfterRecord(operation, records, jj, created) ==
    IF jj = Len(records)
    THEN /\ Finish(operation, ReplicateSuccess(detectedRecords, created))
         /\ j' = jj
    ELSE pc' = "create" /\ j' = jj + 1 /\ UNCHANGED result

SendCreate_backwards(operation, records, jj, created) ==
    LET request ==
           createDnsRecordRequest(
               CreateRecordData(records[Len(records) + 1 - jj]),
               cloudflareConfig)
    IN  IF request.threw
        THEN /\ createFailed' = createFailed + 1
             /\ AfterRecord(operation, records, jj, created)
             /\ UNCHANGED calls
        ELSE /\ calls' = Append(calls, ValueOf(request))
             /\ pc' = "createWait"
             /\ j' = jj
             /\ UNCHANGED <<createFailed, result>>

\* one iteration of the for loop up to the call of fetch; what createDnsRecord
\* throws before it is caught and logged by the iteration
SendCreate(operation, records, jj, created) ==
    LET request == createDnsRecordRequest(CreateRecordData(records[jj]),
                                          cloudflareConfig)
    IN  IF request.threw
        THEN /\ createFailed' = createFailed + 1
             /\ AfterRecord(operation, records, jj, created)
             /\ UNCHANGED calls
        ELSE /\ calls' = Append(calls, ValueOf(request))
             /\ pc' = "createWait"
             /\ j' = jj
             /\ UNCHANGED <<createFailed, result>>

\* detect_dns_records
StartDetect ==
    /\ pc = "idle"
    /\ op' = "detect"
    /\ args' = [domain |-> Domain, targetZoneId |-> "", zoneType |-> ""]
    /\ EnterDetect
    /\ UNCHANGED <<cloudflareConfig, targetZone, zone, result, queries,
                   answered, calls>>
    /\ UNCHANGED importVars
    /\ UNCHANGED toolVars
    /\ UNCHANGED delivered
    /\ UNCHANGED lastResponse

\* detectDnsRecords returns to the caller of the API
DetectReturn ==
    /\ pc = "detected"
    /\ op = "detect"
    /\ pc' = "done"
    /\ result' = detectedRecords
    /\ UNCHANGED <<cloudflareConfig, op, args, targetZone, zone, calls>>
    /\ UNCHANGED detectVars
    /\ UNCHANGED importVars
    /\ UNCHANGED toolVars
    /\ UNCHANGED delivered
    /\ UNCHANGED lastResponse

\* replicate_dns_records
StartReplicate ==
    /\ pc = "idle"
    /\ \E t \in TargetZoneIds :
          /\ args' = [domain |-> Domain, targetZoneId |-> t, zoneType |-> ""]
          /\ targetZone' = t
    /\ op' = "replicate"
    /\ EnterDetect
    /\ UNCHANGED <<cloudflareConfig, zone, result, queries, answered,
                   calls>>
    /\ UNCHANGED importVars
    /\ UNCHANGED toolVars
    /\ UNCHANGED delivered
    /\ UNCHANGED lastResponse

\* detectDnsRecords returns to replicateDnsRecords, which returns at once or
\* enters importDnsRecords and runs it up to its first await
ReplicateDetected ==
    /\ pc = "detected"
    /\ op # "detect"
    /\ IF Len(detectedRecords) = 0
       THEN /\ Finish(op, NoRecordsResult)
            /\ UNCHANGED <<calls>>
            /\ UNCHANGED importVars
       ELSE LET begun == ImportBegin(detectedRecords, targetZone,
                                     cloudflareConfig)
            IN  IF begun.threw
                THEN /\ Finish(op, ReplicateFailure(begun.error))
                     /\ UNCHANGED <<calls>>
                     /\ UNCHANGED importVars
                ELSE /\ validatedRecords' = ValueOf(begun)
                     /\ createdRecords' = <<>>
                     /\ SendCreate(op, ValueOf(begun), 1, <<>>)
    /\ UNCHANGED <<cloudflareConfig, op, args, targetZone, zone>>
    /\ UNCHANGED detectVars
    /\ UNCHANGED toolVars
    /\ UNCHANGED delivered
    /\ UNCHANGED lastResponse

\* the next iteration of the for loop of importDnsRecords, up to its await
CreateSend ==
    /\ pc = "create"
    /\ SendCreate(op, validatedRecords, j, createdRecords)
    /\ UNCHANGED <<cloudflareConfig, op, args, targetZone, zone,
                   validatedRecords, createdRecords>>
    /\ UNCHANGED detectVars
    /\ UNCHANGED toolVars
    /\ UNCHANGED delivered
    /\ UNCHANGED lastResponse

\* the provider's response to a createDnsRecord reaches the iteration
CreateReceive ==
    /\ pc = "createWait"
    /\ \E fetched \in ProviderResponses(calls[Len(calls)], Len(calls)) :
          LET created == createDnsRecordResponse(fetched)
              records == IF created.threw THEN createdRecords
                         ELSE Append(createdRecords, ValueOf(created))
          IN  /\ createdRecords' = records
              /\ createFailed' = IF created.threw THEN createFailed + 1
                                 ELSE createFailed
              /\ delivered' = delivered \o DeliveredBy(fetched, Len(calls))
              /\ lastResponse' = fetched
              /\ AfterRecord(op, validatedRecords, j, records)
    /\ UNCHANGED <<cloudflareConfig, op, args, targetZone, zone,
                   validatedRecords, calls>>
    /\ UNCHANGED detectVars
    /\ UNCHANGED toolVars

\* migrate_domain_with_detection, up to the await of createZone
StartMigrate ==
    /\ pc = "idle"
    /\ op' = "migrate"
    /\ \E zoneType \in ZoneTypes :
          LET request ==
                 createZoneRequest(
                     [name |-> Domain,
                      type |-> IF zoneType = "" THEN "full" ELSE zoneType,
                      jump_start |-> FALSE], cloudflareConfig)
          IN  /\ args' = [domain |-> Domain, targetZoneId |-> "",
                          zoneType |-> zoneType]
              /\ IF request.threw
                 THEN /\ pc' = "done"
                      /\ result' = MigrateFailure(request.error)
                      /\ UNCHANGED calls
                 ELSE /\ pc' = "createZoneWait"
                      /\ calls' = Append(calls, ValueOf(request))
                      /\ UNCHANGED result
    /\ UNCHANGED <<cloudflareConfig, targetZone, zone>>
    /\ UNCHANGED detectVars
    /\ UNCHANGED importVars
    /\ UNCHANGED toolVars
    /\ UNCHANGED delivered
    /\ UNCHANGED lastResponse

\* the provider's response to createZone reaches migrateDomainWithDetection,
\* which returns from its catch block or calls replicateDnsRecords
CreateZoneReceive ==
    /\ pc = "createZoneWait"
    /\ \E fetched \in ProviderResponses(calls[Len(calls)], Len(calls)) :
          LET created == createZoneResponse(fetched)
          IN  /\ delivered' = delivered \o DeliveredBy(fetched, Len(calls))
              /\ lastResponse' = fetched
              /\ IF created.threw
                 THEN /\ pc' = "done"
                      /\ result' = MigrateFailure(created.error)
                      /\ UNCHANGED <<zone, targetZone, i, detectedRecords>>
                 ELSE /\ zone' = ValueOf(created)
                      /\ targetZone' = ValueOf(created).id
                      /\ EnterDetect
                      /\ UNCHANGED result
    /\ UNCHANGED <<cloudflareConfig, op, args, queries, answered,
                   calls>>
    /\ UNCHANGED importVars
    /\ UNCHANGED toolVars

\* another request handler (of this server or of a second server created
\* with another configuration) runs configureApiIfNeeded while the
\* invocation awaits; a resolver probe reads no configuration, so the
\* positions between the probes are left out
Configure ==
    /\ pc \in {"idle", "detected", "create", "createWait", "createZoneWait",
              "createOneWait", "getZoneWait", "listWait", "zoneFileCreate",
              "zoneFileWait"}
    /\ \E config \in {ConfigA, ConfigB} :
          /\ config # cloudflareConfig
          /\ cloudflareConfig' = config
    /\ UNCHANGED <<op, args, pc, targetZone, zone, result, calls>>
    /\ UNCHANGED detectVars
    /\ UNCHANGED importVars
    /\ UNCHANGED toolVars
    /\ UNCHANGED delivered
    /\ UNCHANGED lastResponse

----------------------------------------------------------------------------
(* The zone-file codec: parseZoneFile and the text exportZoneFile builds *)

\* the most lines of a zone file given to the parser, and the most records
\* of an exported zone
MaxLines == 3
MaxRecords == 2

\* the characters of the type tokens
TypeChars(type) ==
    CASE type = "A" -> <<"A">>
      [] type = "AAAA" -> <<"A", "A", "A", "A">>
      [] type = "CNAME" -> <<"C", "N", "A", "M", "E">>
      [] type = "MX" -> <<"M", "X">>
      [] type = "TXT" -> <<"T", "X", "T">>
      [] type = "NS" -> <<"N", "S">>
      [] type = "SRV" -> <<"S", "R", "V">>
      [] type = "CAA" -> <<"C", "A", "A">>
      [] type = "PTR" -> <<"P", "T", "R">>

\* the types parseZoneFile recognizes
ZoneFileTypes == {"A", "AAAA", "CNAME", "MX", "TXT", "NS", "SRV", "CAA"}

\* s.startsWith(prefix)
StartsWith(s, prefix) ==
    Len(s) >= Len(prefix) /\ SubSeq(s, 1, Len(prefix)) = prefix

\* s.endsWith(suffix)
EndsWith(s, suffix) ==
    Len(s) >= Len(suffix)
       /\ SubSeq(s, Len(s) - Len(suffix) + 1, Len(s)) = suffix

RECURSIVE TrimEnd(_)
TrimEnd(s) ==
    IF s # <<>> /\ s[Len(s)] \in WhiteSpace
    THEN TrimEnd(SubSeq(s, 1, Len(s) - 1)) ELSE s

\* s.trim()
Trim(s) == TrimEnd(TrimStart(s))

\* s.split(c) for a one-character separator
RECURSIVE Split(_, _)
Split(s, c) ==
    IF ~Includes(s, c) THEN <<s>>
    ELSE <<FirstToken(s, c)>>
         \o Split(SubSeq(s, Len(FirstToken(s, c)) + 2, Len(s)), c)

\* the longest prefix of s without white space
RECURSIVE Word(_)
Word(s) ==
    IF s = <<>> \/ Head(s) \in WhiteSpace THEN <<>>
    ELSE <<Head(s)>> \o Word(Tail(s))

\* s.split(/\s+/)
RECURSIVE SplitWhiteSpace(_)
SplitWhiteSpace(s) ==
    LET rest == SubSeq(s, Len(Word(s)) + 1, Len(s))
    IN  IF rest = <<>> THEN <<Word(s)>>
        ELSE <<Word(s)>> \o SplitWhiteSpace(TrimStart(rest))

\* the string of a number that is not negative
RECURSIVE NumberToString(_)
NumberToString(n) ==
    LET digit == CHOOSE d \in Digits : DigitValue(d) = n % 10
    IN  IF n < 10 THEN <<digit>> ELSE NumberToString(n \div 10) \o <<digit>>

\* s.replace(pattern, "") for a string pattern: the first occurrence is removed
RECURSIVE RemoveFirst(_, _)
RemoveFirst(s, pattern) ==
    IF Len(s) < Len(pattern) THEN s
    ELSE IF StartsWith(s, pattern) THEN SubSeq(s, Len(pattern) + 1, Len(s))
    ELSE <<Head(s)>> \o RemoveFirst(Tail(s), pattern)

TypeError == <<"TypeError">>

RecordOfLine_fixedTtl(parts, defaultTtl, origin) ==
    IF Len(parts) >= 4
       /\ \E type \in ZoneFileTypes : TypeChars(type) = parts[4]
    THEN LET name == IF parts[1] = <<"@">> THEN origin ELSE parts[1]
             recordType == CHOOSE type \in ZoneFileTypes :
                              TypeChars(type) = parts[4]
             record ==
                [type |-> recordType,
                 name |-> IF EndsWith(name, <<".">>)
                          THEN SubSeq(name, 1, Len(name) - 1) ELSE name,
                 content |-> JoinMessages(SubSeq(parts, 5, Len(parts)), " "),
                 ttl |-> OrElse(parseInt(parts[2]), Num(300)),
                 proxied |-> FALSE]
         IN  IF recordType = "MX" /\ Len(parts) >= 5
             THEN <<record @@ ("priority" :> parseInt(parts[5]))>>
             ELSE <<record>>
    ELSE <<>>

\* the record parseZoneFile pushes for the parts of a record line, if any
RecordOfLine(parts, defaultTtl, origin) ==
    IF Len(parts) >= 4
       /\ \E type \in ZoneFileTypes : TypeChars(type) = parts[4]
    THEN LET name == IF parts[1] = <<"@">> THEN origin ELSE parts[1]
             recordType == CHOOSE type \in ZoneFileTypes :
                              TypeChars(type) = parts[4]
             record ==
                [type |-> recordType,
                 name |-> IF EndsWith(name, <<".">>)
                          THEN SubSeq(name, 1, Len(name) - 1) ELSE name,
                 content |-> JoinMessages(SubSeq(parts, 5, Len(parts)), " "),
                 ttl |-> OrElse(parseInt(parts[2]), defaultTtl),
                 proxied |-> FALSE]
         IN  IF recordType = "MX" /\ Len(parts) >= 5
             THEN <<record @@ ("priority" :> parseInt(parts[5]))>>
             ELSE <<record>>
    ELSE <<>>

\* the for loop of parseZoneFile over the remaining lines
RECURSIVE ParseLines(_, _, _, _)
ParseLines(lines, defaultTtl, origin, parsed) ==
    IF lines = <<>> THEN Returned(parsed)
    ELSE LET trimmedLine == Trim(Head(lines))
             parts == SplitWhiteSpace(trimmedLine)
         IN  IF StartsWith(trimmedLine, <<";">>) \/ trimmedLine = <<>>
             THEN ParseLines(Tail(lines), defaultTtl, origin, parsed)
             ELSE IF StartsWith(trimmedLine, <<"$", "T", "T", "L">>)
             THEN ParseLines(Tail(lines),
                             OrElse(IF Len(parts) >= 2 THEN parseInt(parts[2])
                                    ELSE NaN, Num(300)),
                             origin, parsed)
             ELSE IF StartsWith(trimmedLine,
                                <<"$", "O", "R", "I", "G", "I", "N">>)
             THEN IF Len(parts) < 2 THEN Threw(TypeError)
                  ELSE ParseLines(Tail(lines), defaultTtl,
                                  IF EndsWith(parts[2], <<".">>)
                                  THEN SubSeq(parts[2], 1, Len(parts[2]) - 1)
                                  ELSE parts[2],
                                  parsed)
             ELSE ParseLines(Tail(lines), defaultTtl, origin,
                             parsed \o RecordOfLine(parts, defaultTtl, origin))

\* parseZoneFile(content): the records, or the TypeError of a $ORIGIN line
\* without a name
parseZoneFile(content) ==
    ParseLines(Split(content, "\n"), Num(300), <<>>, <<>>)

\* the line exportZoneFile appends for a record
ZoneFileLine(record, z) ==
    (IF record.name = z.name THEN <<"@">>
     ELSE RemoveFirst(record.name, <<".">> \o z.name))
    \o <<"\t">> \o NumberToString(OrElse(record.ttl, Num(300)).v)
    \o <<"\t", "I", "N", "\t">> \o TypeChars(record.type) \o <<"\t">>
    \o (IF Member(record, "priority").k = "number"
           /\ Member(record, "priority").v # 0
        THEN NumberToString(record.priority.v) \o <<" ">> ELSE <<>>)
    \o record.content \o <<"\n">>

RECURSIVE ZoneFileLines(_, _)
ZoneFileLines(zoneRecords, z) ==
    IF zoneRecords = <<>> THEN <<>>
    ELSE ZoneFileLine(Head(zoneRecords), z)
         \o ZoneFileLines(Tail(zoneRecords), z)

\* the text exportZoneFile returns for the records and the zone it fetched
ZoneFileText(zoneRecords, z) ==
    <<"$", "O", "R", "I", "G", "I", "N", " ">> \o z.name
    \o <<".", "\n", "$", "T", "T", "L", " ", "3", "0", "0", "\n", "\n">>
    \o ZoneFileLines(zoneRecords, z)

\* the lines of the zone files given to the parser, each as its fields, the
\* white space between them and the white space in front: a comment, the
\* directives (one without a name), record lines with and without a numeric
\* TTL, an MX line without a priority field, a PTR line, a line of an
\* unknown type and a line of three fields
ZoneFileLinePool ==
    { [indent |-> <<" ">>, sep |-> " ", fields |-> <<<<";">>, <<"c">>>>],
      [indent |-> <<>>, sep |-> " ", fields |-> <<<<"$", "T", "T", "L">>, <<"6", "0", "0">>>>],
      [indent |-> <<>>, sep |-> " ", fields |-> <<<<"$", "O", "R", "I", "G", "I", "N">>, <<"e", "x", ".", "i", "o", ".">>>>],
      [indent |-> <<>>, sep |-> " ", fields |-> <<<<"$", "O", "R", "I", "G", "I", "N">>, <<"b", ".">>>>],
      [indent |-> <<>>, sep |-> " ", fields |-> <<<<"$", "O", "R", "I", "G", "I", "N">>>>],
      [indent |-> <<>>, sep |-> "\t", fields |-> <<<<"@">>, <<"x">>, <<"I", "N">>, <<"M", "X">>, <<"1", "0">>, <<"m">>>>],
      [indent |-> <<>>, sep |-> " ", fields |-> <<<<"@">>, <<"6", "0">>, <<"I", "N">>, <<"M", "X">>>>],
      [indent |-> <<" ">>, sep |-> " ", fields |-> <<<<"w", ".">>, <<"x">>, <<"I", "N">>, <<"T", "X", "T">>, <<"a">>, <<"b">>>>],
      [indent |-> <<>>, sep |-> " ", fields |-> <<<<"w">>, <<"6", "0">>, <<"I", "N">>, <<"P", "T", "R">>, <<"p">>>>],
      [indent |-> <<>>, sep |-> " ", fields |-> <<<<"w">>, <<"6", "0">>, <<"I", "N">>, <<"S", "O", "A">>, <<"p">>>>],
      [indent |-> <<>>, sep |-> " ", fields |-> <<<<"w">>, <<"6", "0">>, <<"I", "N">>>>] }

\* the text of a line
LineText(line) ==
    line.indent \o JoinMessages(line.fields, line.sep) \o <<"\n">>

RECURSIVE LinesText(_)
LinesText(lines) ==
    IF lines = <<>> THEN <<>>
    ELSE LineText(Head(lines)) \o LinesText(Tail(lines))

\* the records of the zones given to the export: an apex record, a record of
\* a subdomain, an MX record with a priority and a TXT record
ExportRecordPool ==
    { [id |-> "r1", type |-> "A", name |-> Domain,
       content |-> <<"1", ".", "2">>, ttl |-> Num(300)],
      [id |-> "r2", type |-> "A", name |-> <<"w", "w", "w", ".">> \o Domain,
       content |-> <<"1", ".", "2">>, ttl |-> Num(60)],
      [id |-> "r3", type |-> "MX", name |-> Domain, content |-> <<"m">>,
       ttl |-> Num(1), priority |-> Num(10)],
      [id |-> "r4", type |-> "TXT", name |-> Domain,
       content |-> <<"v", "=", "1">>, ttl |-> Num(300)] }

----------------------------------------------------------------------------
(* getZone, listDnsRecords, validateZoneSetup, exportZoneFile and the direct
   calls of createDnsRecord and importDnsRecords *)

\* getZone up to the call of fetch
getZoneRequest(zoneId, config) ==
    IF TargetZoneId(zoneId, config) = ""
    THEN Threw(<<"Zone ID not provided and not configured">>)
    ELSE ApiRequest(ZonePath(TargetZoneId(zoneId, config)), "GET", <<>>, FALSE,
                    config)

\* the try block of getZone
getZoneParse(body) ==
    IF ~CloudflareApiResponseValid(body) THEN Threw(ZodError)
    ELSE IF ~body.success THEN Threw(ApiErrorMessage(body))
    ELSE IF ParsedResult(body).kind # "object" THEN Threw(<<"Zone not found">>)
    ELSE IF ~CloudflareZoneValid(ParsedResult(body).items[1])
    THEN Threw(ZodError)
    ELSE Returned(Strip(ParsedResult(body).items[1], CloudflareZoneKeys))

\* getZone from the settling of fetch
getZoneResponse(fetched) ==
    IF ApiResponse(fetched).threw THEN ApiResponse(fetched)
    ELSE IF ~fetched.json THEN Threw(SyntaxError)
    ELSE IF getZoneParse(fetched.body).threw
    THEN Threw(<<"Failed to parse zone response: ">>
               \o getZoneParse(fetched.body).error)
    ELSE getZoneParse(fetched.body)

\* listDnsRecords up to the call of fetch
listDnsRecordsRequest(config) ==
    ApiRequest("dns_records", "GET", <<>>, TRUE, config)

\* the try block of listDnsRecords
listDnsRecordsParse(body) ==
    IF ~CloudflareApiResponseValid(body) THEN Threw(ZodError)
    ELSE IF ~body.success THEN Threw(ApiErrorMessage(body))
    ELSE IF ParsedResult(body).kind \in {"undefined", "null"}
    THEN Returned(<<>>)
    ELSE Returned(ParsedResult(body).items)

\* listDnsRecords from the settling of fetch
listDnsRecordsResponse(fetched) ==
    IF ApiResponse(fetched).threw THEN ApiResponse(fetched)
    ELSE IF ~fetched.json THEN Threw(SyntaxError)
    ELSE IF listDnsRecordsParse(fetched.body).threw
    THEN Threw(<<"Failed to parse API response: ">>
               \o listDnsRecordsParse(fetched.body).error)
    ELSE listDnsRecordsParse(fetched.body)

\* the issues validateZoneSetup pushes for the zone it got
ZoneIssues(z) ==
    (IF z.status # "active"
     THEN << <<"Zone status is ", z.status, ", should be active">> >>
     ELSE <<>>)
    \o (IF Len(z.name_servers) = 0
        THEN << <<"No nameservers found for zone">> >> ELSE <<>>)

\* the issue validateZoneSetup pushes for the records it got
RecordIssues(listed) ==
    IF Len(listed) = 0 THEN << <<"No DNS records found in zone">> >> ELSE <<>>

\* the return of the try block of validateZoneSetup
Validated(found) == [valid |-> Len(found) = 0, issues |-> found]

\* the return of the catch block of validateZoneSetup
ValidateFailed(found, error) ==
    [valid |-> FALSE,
     issues |-> Append(found, <<"Failed to validate zone: ">> \o error)]

\* the zone ids validate_zone_setup and export_zone_file are called with
ValidateZoneIds == {"", "zoneA", "zoneB", "zoneC"}

\* the records import_dns_records and create_dns_record are called with: a
\* record of the apex, a record of a subdomain, and a record whose type is
\* outside the enumeration
ImportRecordPool ==
    { [type |-> "A", name |-> Domain, content |-> DataPlain, ttl |-> Num(60)],
      [type |-> "MX", name |-> Domain, content |-> <<"m">>, ttl |-> Num(60),
       priority |-> Num(10)],
      [type |-> "SOA", name |-> Domain, content |-> DataPlain,
       ttl |-> Num(60)] }

\* the most records of one direct import
MaxImport == 2

\* validate_zone_setup, up to the await of getZone
StartValidate ==
    /\ pc = "idle"
    /\ op' = "validate"
    /\ issues' = <<>>
    /\ \E zoneId \in ValidateZoneIds :
          LET request == getZoneRequest(zoneId, cloudflareConfig)
          IN  /\ args' = [zoneId |-> zoneId]
              /\ IF request.threw
                 THEN /\ pc' = "done"
                      /\ result' = ValidateFailed(<<>>, request.error)
                      /\ UNCHANGED calls
                 ELSE /\ pc' = "getZoneWait"
                      /\ calls' = Append(calls, ValueOf(request))
                      /\ UNCHANGED result
    /\ UNCHANGED <<cloudflareConfig, targetZone, zone, dnsRecords, delivered,
                   lastResponse, importErrors>>
    /\ UNCHANGED detectVars
    /\ UNCHANGED importVars

\* export_zone_file, up to the await of listDnsRecords
StartExport ==
    /\ pc = "idle"
    /\ op' = "export"
    /\ \E zoneId \in ValidateZoneIds :
          LET request == listDnsRecordsRequest(cloudflareConfig)
          IN  /\ args' = [zoneId |-> zoneId]
              /\ targetZone' = TargetZoneId(zoneId, cloudflareConfig)
              /\ IF TargetZoneId(zoneId, cloudflareConfig) = ""
                 THEN /\ pc' = "done"
                      /\ result' =
                            Threw(<<"Zone ID not provided and not configured">>)
                      /\ UNCHANGED calls
                 ELSE IF request.threw
                 THEN /\ pc' = "done"
                      /\ result' = request
                      /\ UNCHANGED calls
                 ELSE /\ pc' = "listWait"
                      /\ calls' = Append(calls, ValueOf(request))
                      /\ UNCHANGED result
    /\ UNCHANGED <<cloudflareConfig, zone, delivered, lastResponse>>
    /\ UNCHANGED detectVars
    /\ UNCHANGED importVars
    /\ UNCHANGED toolVars

\* the provider's response to getZone reaches validateZoneSetup, which
\* returns from its catch block or goes on to listDnsRecords, or
\* exportZoneFile, which throws or returns the zone file
GetZoneReceive ==
    /\ pc = "getZoneWait"
    /\ \E fetched \in ProviderResponses(calls[Len(calls)], Len(calls)) :
          LET got == getZoneResponse(fetched)
              request == listDnsRecordsRequest(cloudflareConfig)
          IN  /\ delivered' = delivered \o DeliveredBy(fetched, Len(calls))
              /\ lastResponse' = fetched
              /\ IF op = "export"
                 THEN /\ pc' = "done"
                      /\ result' = IF got.threw THEN got
                                   ELSE Returned(ZoneFileText(dnsRecords,
                                                              ValueOf(got)))
                      /\ zone' = IF got.threw THEN zone ELSE ValueOf(got)
                      /\ UNCHANGED <<issues, calls>>
                 ELSE IF got.threw
                 THEN /\ pc' = "done"
                      /\ result' = ValidateFailed(issues, got.error)
                      /\ UNCHANGED <<zone, issues, calls>>
                 ELSE /\ zone' = ValueOf(got)
                      /\ issues' = issues \o ZoneIssues(ValueOf(got))
                      /\ IF request.threw
                         THEN /\ pc' = "done"
                              /\ result' =
                                    ValidateFailed(
                                        issues \o ZoneIssues(ValueOf(got)),
                                        request.error)
                              /\ UNCHANGED calls
                         ELSE /\ pc' = "listWait"
                              /\ calls' = Append(calls, ValueOf(request))
                              /\ UNCHANGED result
    /\ UNCHANGED <<cloudflareConfig, op, args, targetZone, dnsRecords,
                   importErrors>>
    /\ UNCHANGED detectVars
    /\ UNCHANGED importVars

\* the provider's response to listDnsRecords reaches exportZoneFile, which
\* throws or goes on to getZone, or validateZoneSetup, which returns
ListReceive ==
    /\ pc = "listWait"
    /\ \E fetched \in ProviderResponses(calls[Len(calls)], Len(calls)) :
          LET listed == listDnsRecordsResponse(fetched)
              request == getZoneRequest(targetZone, cloudflareConfig)
          IN  /\ delivered' = delivered \o DeliveredBy(fetched, Len(calls))
              /\ lastResponse' = fetched
              /\ dnsRecords' = IF listed.threw THEN dnsRecords
                               ELSE ValueOf(listed)
              /\ IF op = "validate"
                 THEN /\ pc' = "done"
                      /\ result' =
                            IF listed.threw
                            THEN ValidateFailed(issues, listed.error)
                            ELSE Validated(issues
                                           \o RecordIssues(ValueOf(listed)))
                      /\ issues' = IF listed.threw THEN issues
                                   ELSE issues \o RecordIssues(ValueOf(listed))
                      /\ UNCHANGED calls
                 ELSE IF listed.threw \/ request.threw
                 THEN /\ pc' = "done"
                      /\ result' = IF listed.threw THEN listed ELSE request
                      /\ UNCHANGED <<issues, calls>>
                 ELSE /\ pc' = "getZoneWait"
                      /\ calls' = Append(calls, ValueOf(request))
                      /\ UNCHANGED <<issues, result>>
    /\ UNCHANGED <<cloudflareConfig, op, args, targetZone, zone,
                   importErrors>>
    /\ UNCHANGED detectVars
    /\ UNCHANGED importVars

\* import_dns_records: importDnsRecords up to its first await
StartImport ==
    /\ pc = "idle"
    /\ op' = "import"
    /\ \E zoneId \in TargetZoneIds :
       \E imported \in SeqsUpTo(ImportRecordPool, MaxImport) :
          LET begun == ImportBegin(imported, zoneId, cloudflareConfig)
          IN  /\ args' = [records |-> imported, zoneId |-> zoneId]
              /\ targetZone' = zoneId
              /\ IF begun.threw \/ Len(imported) = 0
                 THEN /\ pc' = "done"
                      /\ result' = IF begun.threw THEN begun
                                   ELSE Returned(<<>>)
                      /\ UNCHANGED calls
                      /\ UNCHANGED importVars
                 ELSE /\ validatedRecords' = ValueOf(begun)
                      /\ createdRecords' = <<>>
                      /\ SendCreate("import", ValueOf(begun), 1, <<>>)
    /\ UNCHANGED <<cloudflareConfig, zone, delivered, lastResponse>>
    /\ UNCHANGED detectVars
    /\ UNCHANGED toolVars

\* create_dns_record: createDnsRecord up to its await
StartCreate ==
    /\ pc = "idle"
    /\ op' = "create"
    /\ \E record \in ImportRecordPool :
          LET request == createDnsRecordRequest(record, cloudflareConfig)
          IN  /\ args' = [record |-> record]
              /\ IF request.threw
                 THEN /\ pc' = "done"
                      /\ result' = request
                      /\ UNCHANGED calls
                 ELSE /\ pc' = "createOneWait"
                      /\ calls' = Append(calls, ValueOf(request))
                      /\ UNCHANGED result
    /\ UNCHANGED <<cloudflareConfig, targetZone, zone, delivered,
                   lastResponse>>
    /\ UNCHANGED detectVars
    /\ UNCHANGED importVars
    /\ UNCHANGED toolVars

\* the provider's response reaches createDnsRecord, which returns or throws
CreateOneReceive ==
    /\ pc = "createOneWait"
    /\ \E fetched \in ProviderResponses(calls[Len(calls)], Len(calls)) :
          /\ delivered' = delivered \o DeliveredBy(fetched, Len(calls))
          /\ lastResponse' = fetched
          /\ result' = createDnsRecordResponse(fetched)
    /\ pc' = "done"
    /\ UNCHANGED <<cloudflareConfig, op, args, targetZone, zone, calls>>
    /\ UNCHANGED detectVars
    /\ UNCHANGED importVars
    /\ UNCHANGED toolVars

----------------------------------------------------------------------------
(* importZoneFile *)

\* the zone files given to import_zone_file: two records under an origin
\* ("$ORIGIN ex.io.", "@ 60 IN A 1.2", "@ x IN MX 10 m"); a record
\* createDnsRecord rejects (an MX record whose priority is no number)
\* followed by a valid one; a file the parser throws on (a bare $ORIGIN); a
\* file without records
ImportedZoneFiles ==
    LET line(sep, fields) == [indent |-> <<>>, sep |-> sep, fields |-> fields]
        origin == <<"$", "O", "R", "I", "G", "I", "N">>
        apex == line(" ", <<<<"@">>, <<"6", "0">>, <<"I", "N">>, <<"A">>,
                            <<"1", ".", "2">>>>)
    IN  { LinesText(<<line(" ", <<origin, <<"e", "x", ".", "i", "o", ".">>>>),
                      apex,
                      line("\t", <<<<"@">>, <<"x">>, <<"I", "N">>,
                                   <<"M", "X">>, <<"1", "0">>, <<"m">>>>)>>),
          LinesText(<<line(" ", <<<<"m">>, <<"6", "0">>, <<"I", "N">>,
                                  <<"M", "X">>, <<"m">>>>),
                      apex>>),
          LinesText(<<line(" ", <<origin>>), apex>>),
          LinesText(<<line(" ", <<<<";">>, <<"c">>>>)>>) }

\* `Failed to import record ${record.name}: ${error.message}`
ImportRecordError(record, error) ==
    <<"Failed to import record ">> \o record.name \o <<": ">> \o error

\* the return of the try block of importZoneFile
ZoneFileImported(imported, errs) == [imported |-> imported, errors |-> errs]

\* the return of the catch block of importZoneFile
ZoneFileImportFailed(error) ==
    [imported |-> <<>>,
     errors |-> << <<"Failed to parse zone file: ">> \o error >>]

\* the end of one iteration of the for loop of importZoneFile
ZoneFileAfterRecord(records, jj, imported, errs) ==
    IF jj = Len(records)
    THEN /\ pc' = "done"
         /\ result' = ZoneFileImported(imported, errs)
         /\ j' = jj
    ELSE /\ pc' = "zoneFileCreate"
         /\ j' = jj + 1
         /\ UNCHANGED result

\* one iteration of the for loop up to the call of fetch; what createDnsRecord
\* throws before it is pushed to errors by the iteration
ZoneFileSend(records, jj, imported, errs) ==
    LET request == createDnsRecordRequest(records[jj], cloudflareConfig)
    IN  IF request.threw
        THEN /\ createFailed' = createFailed + 1
             /\ importErrors' = Append(errs, ImportRecordError(records[jj],
                                                         request.error))
             /\ ZoneFileAfterRecord(
                    records, jj, imported,
                    Append(errs, ImportRecordError(records[jj],
                                                   request.error)))
             /\ UNCHANGED calls
        ELSE /\ calls' = Append(calls, ValueOf(request))
             /\ pc' = "zoneFileWait"
             /\ j' = jj
             /\ importErrors' = errs
             /\ UNCHANGED <<createFailed, result>>

\* import_zone_file: importZoneFile up to its first await
StartImportZoneFile ==
    /\ pc = "idle"
    /\ op' = "importZoneFile"
    /\ \E content \in ImportedZoneFiles :
       \E zoneId \in TargetZoneIds :
          LET parsed == parseZoneFile(content)
          IN  /\ args' = [zoneFileContent |-> content, zoneId |-> zoneId]
              /\ IF parsed.threw
                 THEN /\ pc' = "done"
                      /\ result' = ZoneFileImportFailed(parsed.error)
                      /\ UNCHANGED <<calls, importErrors>>
                      /\ UNCHANGED importVars
                 ELSE IF ValueOf(parsed) = <<>>
                 THEN /\ pc' = "done"
                      /\ result' = ZoneFileImported(<<>>, <<>>)
                      /\ UNCHANGED <<calls, importErrors>>
                      /\ UNCHANGED importVars
                 ELSE /\ validatedRecords' = ValueOf(parsed)
                      /\ createdRecords' = <<>>
                      /\ ZoneFileSend(ValueOf(parsed), 1, <<>>, <<>>)
    /\ UNCHANGED <<cloudflareConfig, targetZone, zone, issues, dnsRecords,
                   delivered, lastResponse>>
    /\ UNCHANGED detectVars

\* the next iteration of the for loop of importZoneFile, up to its await
ZoneFileCreateSend ==
    /\ pc = "zoneFileCreate"
    /\ ZoneFileSend(validatedRecords, j, createdRecords, importErrors)
    /\ UNCHANGED <<cloudflareConfig, op, args, targetZone, zone,
                   validatedRecords, createdRecords, issues, dnsRecords,
                   delivered, lastResponse>>
    /\ UNCHANGED detectVars

\* the provider's response to a createDnsRecord reaches the iteration
ZoneFileCreateReceive ==
    /\ pc = "zoneFileWait"
    /\ \E fetched \in ProviderResponses(calls[Len(calls)], Len(calls)) :
          LET created == createDnsRecordResponse(fetched)
              imported == IF created.threw THEN createdRecords
                          ELSE Append(createdRecords, ValueOf(created))
              errs == IF created.threw
                      THEN Append(importErrors,
                                  ImportRecordError(validatedRecords[j],
                                                    created.error))
                      ELSE importErrors
          IN  /\ createdRecords' = imported
              /\ importErrors' = errs
              /\ createFailed' = IF created.threw THEN createFailed + 1
                                 ELSE createFailed
              /\ delivered' = delivered \o DeliveredBy(fetched, Len(calls))
              /\ lastResponse' = fetched
              /\ ZoneFileAfterRecord(validatedRecords, j, imported, errs)
    /\ UNCHANGED <<cloudflareConfig, op, args, targetZone, zone,
                   validatedRecords, calls, issues, dnsRecords>>
    /\ UNCHANGED detectVars

----------------------------------------------------------------------------
(* The specification *)

\* parseEnv() at module load: both CLOUDFLARE_API_TOKEN and
\* CLOUDFLARE_ZONE_ID are set, or the configuration stays empty
Init ==
    /\ cloudflareConfig \in {Unconfigured, ConfigA}
    /\ op = "none"
    /\ args = [domain |-> Domain, targetZoneId |-> "", zoneType |-> ""]
    /\ pc = "idle"
    /\ i = 1
    /\ detectedRecords = <<>>
    /\ targetZone = ""
    /\ validatedRecords = <<>>
    /\ j = 1
    /\ createdRecords = <<>>
    /\ zone = EmptyObject
    /\ result = <<>>
    /\ queries = <<>>
    /\ answered = <<>>
    /\ calls = <<>>
    /\ createFailed = 0
    /\ issues = <<>>
    /\ dnsRecords = <<>>
    /\ delivered = <<>>
    /\ lastResponse = NoResponse
    /\ importErrors = <<>>

Next ==
    \/ StartReplicate
    \/ ProbeBase
    \/ ProbeSubdomain
    \/ ReplicateDetected
    \/ CreateSend
    \/ CreateReceive
    \/ StartMigrate
    \/ CreateZoneReceive
    \/ StartValidate
    \/ StartExport
    \/ GetZoneReceive
    \/ ListReceive
    \/ StartImport
    \/ StartCreate
    \/ CreateOneReceive
    \/ StartImportZoneFile
    \/ ZoneFileCreateSend
    \/ ZoneFileCreateReceive
    \/ Configure

\* the operations of the server that call the provider
Spec == Init /\ [][Next]_vars

NextDetect ==
    \/ StartDetect
    \/ ProbeBase
    \/ ProbeSubdomain
    \/ DetectReturn

InitDetect == Init /\ cloudflareConfig = ConfigA

\* detect_dns_records alone, which reads no configuration
SpecDetect == InitDetect /\ [][NextDetect]_vars

----------------------------------------------------------------------------
(* The zone-file codec on its own: texts parsed, records exported *)

\* the parser is given a zone file
StartParse ==
    /\ pc = "idle"
    /\ op' = "parse"
    /\ \E lines \in SeqsUpTo(ZoneFileLinePool, MaxLines) :
          args' = [lines |-> lines, content |-> LinesText(lines)]
    /\ pc' = "parsing"
    /\ UNCHANGED <<cloudflareConfig, targetZone, zone, result, calls,
                   delivered>>
    /\ UNCHANGED detectVars
    /\ UNCHANGED importVars
    /\ UNCHANGED toolVars
    /\ UNCHANGED lastResponse

\* a record set is exported as the zone file of its zone, which is then
\* given to the parser
ExportText ==
    /\ pc = "idle"
    /\ op' = "roundTrip"
    /\ \E zoneRecords \in SeqsUpTo(ExportRecordPool, MaxRecords) :
          args' = [records |-> zoneRecords,
                   content |-> ZoneFileText(zoneRecords, [name |-> Domain])]
    /\ pc' = "parsing"
    /\ UNCHANGED <<cloudflareConfig, targetZone, zone, result, calls,
                   delivered>>
    /\ UNCHANGED detectVars
    /\ UNCHANGED importVars
    /\ UNCHANGED toolVars
    /\ UNCHANGED lastResponse

\* parseZoneFile
ParseContent ==
    /\ pc = "parsing"
    /\ result' = parseZoneFile(args.content)
    /\ pc' = "done"
    /\ UNCHANGED <<cloudflareConfig, op, args, targetZone, zone, calls,
                   delivered>>
    /\ UNCHANGED detectVars
    /\ UNCHANGED importVars
    /\ UNCHANGED toolVars
    /\ UNCHANGED lastResponse

NextZoneFile ==
    \/ StartParse
    \/ ExportText
    \/ ParseContent

\* the zone-file codec alone
SpecZoneFile == InitDetect /\ [][NextZoneFile]_vars

----------------------------------------------------------------------------
(* checkNameserverPropagation *)

\* the most answers of one NS response, and the most expected name servers
MaxNs == 2
MaxExpected == 2

Ns1 == <<"n", "s", "1">>
Ns1Upper == <<"N", "S", "1">>
Ns2 == <<"n", "s", "2">>
Ns2Mixed == <<"N", "s", "2">>

\* String.prototype.toLowerCase, on the letters of the modelled names
LowerCaseOf(c) == CASE c = "N" -> "n" [] c = "S" -> "s" [] OTHER -> c

ToLowerCase(s) == [n \in 1..Len(s) |-> LowerCaseOf(s[n])]

\* the answers of the resolver to an NS query: NS records in either case, an
\* A record (of a name that resolves through an alias), and an answer that
\* has no data member
NsAnswers ==
    { [type |-> 2, data |-> Ns1, TTL |-> Num(60)],
      [type |-> 2, data |-> Ns2Mixed, TTL |-> Num(60)],
      [type |-> 1, data |-> Ns2, TTL |-> Num(60)],
      [type |-> 2, TTL |-> Num(60)] }

NsResponses ==
    { NoJson("transport"), NoJson("badjson"), Json(0, FALSE, <<>>),
      Json(3, TRUE, <<[type |-> 2, data |-> Ns1, TTL |-> Num(60)]>>) }
    \cup { Json(0, TRUE, answer) : answer \in SeqsUpTo(NsAnswers, MaxNs) }

ExpectedNameservers == SeqsUpTo({Ns1, Ns1Upper, Ns2}, MaxExpected)

checkNameserverPropagation_anyType(expectedNameservers, resp) ==
    IF resp.kind # "json" THEN FALSE
    ELSE IF resp.Status # 0 \/ ~resp.hasAnswer THEN FALSE
    ELSE IF \E n \in 1..Len(resp.Answer) : "data" \notin DOMAIN resp.Answer[n]
    THEN FALSE
    ELSE \A e \in 1..Len(expectedNameservers) :
            \E n \in 1..Len(resp.Answer) :
               ToLowerCase(resp.Answer[n].data)
                  = ToLowerCase(expectedNameservers[e])

\* what checkNameserverPropagation returns for a response of the resolver:
\* false from the catch block (fetch or json() rejected, or toLowerCase of a
\* missing data member threw), false for a Status that is not 0 or a missing
\* Answer, else whether every expected name is among the NS answers
checkNameserverPropagation(expectedNameservers, resp) ==
    IF resp.kind # "json" THEN FALSE
    ELSE IF resp.Status # 0 \/ ~resp.hasAnswer THEN FALSE
    ELSE LET filtered == SelectSeq(resp.Answer, LAMBDA r : r.type = 2)
         IN  IF \E n \in 1..Len(filtered) : "data" \notin DOMAIN filtered[n]
             THEN FALSE
             ELSE LET currentNameservers ==
                         Map(filtered, LAMBDA r : ToLowerCase(r.data))
                  IN  \A e \in 1..Len(expectedNameservers) :
                         \E n \in 1..Len(currentNameservers) :
                            currentNameservers[n]
                               = ToLowerCase(expectedNameservers[e])

\* check_nameserver_propagation, up to the await of fetch
StartCheck ==
    /\ pc = "idle"
    /\ op' = "check"
    /\ \E expected \in ExpectedNameservers :
          args' = [domain |-> Domain, expected |-> expected]
    /\ pc' = "checkWait"
    /\ queries' = Append(queries, [name |-> Domain, type |-> "NS"])
    /\ UNCHANGED <<cloudflareConfig, i, detectedRecords, answered, targetZone,
                   zone, result, calls, delivered>>
    /\ UNCHANGED importVars
    /\ UNCHANGED toolVars
    /\ UNCHANGED lastResponse

\* the resolver's response (or the failure of fetch) reaches
\* checkNameserverPropagation, which returns
CheckReceive ==
    /\ pc = "checkWait"
    /\ \E resp \in NsResponses :
          /\ answered' = Append(answered, resp)
          /\ result' = Returned(checkNameserverPropagation(args.expected, resp))
    /\ pc' = "done"
    /\ UNCHANGED <<cloudflareConfig, op, args, i, detectedRecords, queries,
                   targetZone, zone, calls, delivered>>
    /\ UNCHANGED importVars
    /\ UNCHANGED toolVars
    /\ UNCHANGED lastResponse

NextPropagation ==
    \/ StartCheck
    \/ CheckReceive

\* check_nameserver_propagation alone
SpecPropagation == InitDetect /\ [][NextPropagation]_vars

----------------------------------------------------------------------------
(* Peers that may never respond *)

\* every operation that calls the provider or the resolver
NextCalls ==
    \/ Next
    \/ StartCheck
    \/ CheckReceive

\* the timer api() sets before fetch fires: controller.abort() rejects the
\* pending fetch with an AbortError
ApiTimeout ==
    /\ \/ CreateReceive
       \/ CreateZoneReceive
       \/ GetZoneReceive
       \/ ListReceive
       \/ CreateOneReceive
       \/ ZoneFileCreateReceive
    /\ lastResponse'.fetch = "abort"

\* the steps of an invocation that await no peer
CodeSteps ==
    \/ DetectReturn
    \/ ReplicateDetected
    \/ CreateSend
    \/ ZoneFileCreateSend

\* the scheduling the code justifies: the event loop runs a continuation that
\* is ready, and a timer that was set fires; a fetch without a signal settles
\* only when the peer or the network settles it, so the responses of the
\* resolver and of the provider carry no fairness
SpecTimeout ==
    /\ Init
    /\ [][NextCalls]_vars
    /\ WF_vars(CodeSteps)
    /\ WF_vars(ApiTimeout)

----------------------------------------------------------------------------
(* What the claims speak of *)

Done(operation) == pc = "done" /\ op = operation

\* the create-record requests among the provider calls
RECURSIVE CreateCalls(_)
CreateCalls(log) ==
    IF log = <<>> THEN <<>>
    ELSE IF Head(log).endpoint = "dns_records"
    THEN <<Head(log)>> \o CreateCalls(Tail(log))
    ELSE CreateCalls(Tail(log))

\* the answers the probe number n returned: those of a response with Status 0
RECURSIVE ProbeAnswers(_, _)
ProbeAnswers(log, n) ==
    IF log = <<>> THEN <<>>
    ELSE IF Head(log).probe = n /\ Head(log).Status = 0 THEN Head(log).Answer
    ELSE ProbeAnswers(Tail(log), n)

\* the order of the types and of the candidate subdomains, as specified
SpecifiedTypes == <<"A", "AAAA", "CNAME", "MX", "TXT", "NS", "SRV", "CAA">>

SpecifiedSubdomains ==
    << <<"w", "w", "w">>, <<"m", "a", "i", "l">>, <<"f", "t", "p">>,
       <<"b", "l", "o", "g">>, <<"s", "h", "o", "p">>, <<"a", "p", "i">>,
       <<"a", "d", "m", "i", "n">> >>

\* the name and the type of the n-th probe, as specified
SpecifiedName(n) ==
    IF n <= 8 THEN Domain ELSE SpecifiedSubdomains[n - 8] \o <<".">> \o Domain

SpecifiedType(n) == IF n <= 8 THEN SpecifiedTypes[n] ELSE "A"

\* the descriptors of the probe number n among the descriptors ds
Group(ds, n) ==
    SelectSeq(ds, LAMBDA d : d.name = SpecifiedName(n)
                             /\ d.type = SpecifiedType(n))

\* the answers of the probe number n that carry the code of the probed type
Accepted(log, n) ==
    SelectSeq(ProbeAnswers(log, n),
              LAMBDA a : a.type = RRCode(SpecifiedType(n)))

\* C1 (as claimed): when the import loop ran over the N >= 1 detected
\* descriptors and M of the creations failed, replicate returns N - M
\* replicated records and M errors.
C1_CountsAsClaimed ==
    (Done("replicate") /\ Len(validatedRecords) >= 1)
    => /\ Len(result.replicated) = Len(detectedRecords) - createFailed
       /\ Len(result.errors) = createFailed

\* C2 (as claimed): every create-record request of a replication is
\* addressed to the target zone when one is given (the new zone's id under
\* migrateDomainWithDetection).
C2_AddressedToTarget ==
    \A n \in 1..Len(calls) :
       (calls[n].endpoint = "dns_records" /\ targetZone # "")
       => calls[n].zone = targetZone

\* C3 (as claimed): the result of replicate lists every detected descriptor,
\* whatever happens to the import.
C3_DetectedUnconditionally ==
    Done("replicate") => Len(result.detected) = Len(detectedRecords)

\* C4: when detection yields no descriptor, replicate returns empty detected
\* and replicated lists and exactly one error message, the explanatory one,
\* and has sent no create-record request.
C4_NothingDetected ==
    (Done("replicate") /\ Len(detectedRecords) = 0)
    => /\ result.detected = <<>>
       /\ result.replicated = <<>>
       /\ Len(result.errors) = 1
       /\ result.errors[1] = <<"No DNS records detected for the domain">>
       /\ CreateCalls(calls) = <<>>

C4_Witness ==
    Done("replicate") /\ Len(detectedRecords) = 0 /\ Len(queries) = 15

\* C5: for each of the 8 types, an answer of the base-domain probe of that type
\* has a descriptor of that type if and only if its type code is the code of
\* the type; a subdomain probe emits nothing for an answer of code 5.
C5_CodeDecides ==
    /\ \A n \in 1..8 :
          \A m \in 1..Len(ProbeAnswers(answered, n)) :
             LET a == ProbeAnswers(answered, n)[m]
                 ds == Group(detectedRecords, n)
             IN  (\E x \in 1..Len(ds) : ds[x].content = a.data)
                 <=> a.type = RRCode(SpecifiedType(n))
    /\ \A n \in 9..15 :
          Len(Group(detectedRecords, n))
             = Len(SelectSeq(ProbeAnswers(answered, n), LAMBDA a : a.type # 5))

C5_Witness ==
    /\ \E n \in 1..Len(detectedRecords) : detectedRecords[n].type = "NS"
    /\ \E n \in 1..Len(answered) :
          /\ answered[n].probe > 8
          /\ answered[n].Status = 0
          /\ answered[n].Answer[1].type = 5

SubdomainNames == { SpecifiedSubdomains[n] \o <<".">> \o Domain : n \in 1..7 }

\* C6: a probe of the subdomain phase asks for type A of a candidate name,
\* and every descriptor it emits has type A, proxied = false, no priority and
\* that name.
C6_SubdomainPhase ==
    [][(pc = "probe" /\ i > 8)
       => /\ queries'[Len(queries')].type = "A"
          /\ queries'[Len(queries')].name \in SubdomainNames
          /\ \A n \in (Len(detectedRecords) + 1)..Len(detectedRecords') :
                LET d == detectedRecords'[n]
                IN  /\ d.type = "A"
                    /\ d.proxied = FALSE
                    /\ "priority" \notin DOMAIN d
                    /\ d.name = queries'[Len(queries')].name]_vars

C6_Witness ==
    \E n \in 1..Len(detectedRecords) :
       /\ detectedRecords[n].name \in SubdomainNames
       /\ Includes(detectedRecords[n].content, " ")

\* the integer parse of the first token of the data the resolver gives
ParsedFirstToken(data) ==
    CASE data = DataPriority -> Num(10)
      [] data = DataSpaced -> Num(1)
      [] data = DataText -> NaN

\* C7 (as claimed): every descriptor made of an answer whose data contains a
\* space has the integer parse of the first token as its priority, and every
\* descriptor made of an answer without a space has no priority.
C7_PriorityAsClaimed ==
    \A n \in 1..Len(detectedRecords) :
       LET d == detectedRecords[n]
       IN  IF Includes(d.content, " ")
           THEN Member(d, "priority") = ParsedFirstToken(d.content)
           ELSE Member(d, "priority") = Undefined

\* C7 (amended): the rule holds for the descriptors of the base-domain phase,
\* whatever the type probed; a descriptor of the subdomain phase never has a
\* priority.
C7_PriorityOfBaseDomain ==
    \A n \in 1..Len(detectedRecords) :
       LET d == detectedRecords[n]
       IN  IF d.name = Domain
           THEN /\ "priority" \in DOMAIN d
                /\ IF Includes(d.content, " ")
                   THEN d.priority = ParsedFirstToken(d.content)
                   ELSE d.priority = Undefined
           ELSE "priority" \notin DOMAIN d

C7_Witness ==
    /\ \E n \in 1..Len(detectedRecords) :
          /\ detectedRecords[n].name = Domain
          /\ detectedRecords[n].type = "TXT"
          /\ detectedRecords[n].priority = NaN
    /\ \E n \in 1..Len(detectedRecords) :
          /\ detectedRecords[n].name = Domain
          /\ detectedRecords[n].type = "A"
          /\ detectedRecords[n].priority = Num(10)

\* the name, type and content of the descriptors the probes 1..n must have
\* produced, in order
RECURSIVE SpecifiedOutput(_, _)
SpecifiedOutput(log, n) ==
    IF n = 0 THEN <<>>
    ELSE SpecifiedOutput(log, n - 1)
         \o Map(Accepted(log, n),
                LAMBDA a : <<SpecifiedName(n), SpecifiedType(n), a.data>>)

\* C8: detect returns the base-domain descriptors first, grouped by type in
\* the order A, AAAA, CNAME, MX, TXT, NS, SRV, CAA, then the subdomain
\* descriptors grouped in the order www, mail, ftp, blog, shop, api, admin,
\* each group in the resolver's order and with its duplicates.
C8_Order ==
    Done("detect")
    => Map(result, LAMBDA d : <<d.name, d.type, d.content>>)
          = SpecifiedOutput(answered, 15)

C8_Witness ==
    /\ Done("detect")
    /\ Len(result) = 2
    /\ result[1].type = "CAA"
    /\ result[2].name \in SubdomainNames

\* the probes that must be issued
SpecifiedProbes ==
    { [name |-> SpecifiedName(n), type |-> SpecifiedType(n)] : n \in 1..15 }

RECURSIVE CountAccepted(_, _)
CountAccepted(log, n) ==
    IF n = 0 THEN 0 ELSE CountAccepted(log, n - 1) + Len(Accepted(log, n))

\* C9: whatever probes fail, detect issues exactly 15 probes, one for each
\* base-domain type and one for each candidate subdomain, none twice; it
\* returns one descriptor for each accepted answer of the probes that
\* succeeded and none for a probe that failed.
C9_AllProbesOnce ==
    Done("detect")
    => /\ Len(queries) = 15
       /\ { queries[n] : n \in 1..15 } = SpecifiedProbes
       /\ Cardinality(SpecifiedProbes) = 15
       /\ Len(result) = CountAccepted(answered, 15)
       /\ \A n \in 1..15 :
             Len(Group(result, n)) = Len(Accepted(answered, n))

C9_Witness ==
    /\ Done("detect")
    /\ \E n \in 1..Len(answered) : answered[n].Status # 0
    /\ \E n \in 1..Len(answered) :
          answered[n].Status = 0 /\ answered[n].probe > 8
    /\ Len(result) = 1

\* C10: when createZone fails, migrateDomainWithDetection returns (it does
\* not throw) an empty placeholder zone, empty detected and replicated lists
\* and the failure as its one error, having sent no resolver probe and no
\* create-record request.
C10_ZoneCreationFatal ==
    (Done("migrate") /\ DOMAIN zone = {})
    => /\ DOMAIN result
            = {"zone", "detected", "replicated", "errors", "nextSteps"}
       /\ DOMAIN result.zone = {}
       /\ result.detected = <<>>
       /\ result.replicated = <<>>
       /\ Len(result.errors) = 1
       /\ Head(result.errors[1]) = "Migration failed: "
       /\ Len(result.errors[1]) >= 2
       /\ queries = <<>>
       /\ CreateCalls(calls) = <<>>

C10_Witness ==
    /\ Done("migrate")
    /\ DOMAIN zone = {}
    /\ Len(calls) = 1
    /\ result.errors[1] = <<"Migration failed: ",
                            "Failed to parse zone creation response: ",
                            "API Error: ", "e1", ", ", "e2">>

----------------------------------------------------------------------------
(* Migration after an accepted zone creation *)

\* the zones the provider reported as created: the singular results it
\* delivered for the create-zone calls
zonesCreated ==
    Map(SelectSeq(delivered,
                  LAMBDA e : /\ calls[e.call].endpoint = "zones"
                             /\ calls[e.call].method = "POST"
                             /\ e.result.kind = "object"),
        LAMBDA e : e.result.items[1])

\* every probe for a record of the source domain was answered with it
NoProbeFailed ==
    \A n \in 1..Len(queries) :
       SourceRecords(queries[n].name, queries[n].type, Domain) # <<>>
          => \E a \in 1..Len(answered) :
                answered[a].probe = n /\ answered[a].Status = 0

\* the three steps the specification composes for the zone z
SpecifiedSteps(z) ==
    << <<"1. Update your domain's nameservers at your registrar to: ">>
          \o Join(z.name_servers, ", "),
       <<"2. Monitor nameserver propagation using check_nameserver_propagation tool">>,
       <<"3. Validate setup using validate_zone_setup tool with zone ID: ", z.id>> >>

\* C11: when the provider has created the zone of a migration, the result's
\* nextSteps are the three steps for that zone (name servers, propagation,
\* validation with the new zone id) in that order, followed by a fourth step
\* listing the errors exactly when the result carries errors.
C11_NextSteps ==
    Done("migrate") /\ zonesCreated # <<>>
       => /\ Len(result.nextSteps) = (IF result.errors # <<>> THEN 4 ELSE 3)
          /\ SubSeq(result.nextSteps, 1, 3) = SpecifiedSteps(zonesCreated[1])
          /\ result.errors # <<>>
                => result.nextSteps[4] =
                      <<"4. Review and fix any DNS record import errors: ">>
                         \o JoinMessages(result.errors, ", ")

\* C12: a migration of a domain with three A records, whose zone creation
\* the provider accepted with a success envelope carrying the new zone, whose
\* probes were answered and whose creations all succeeded, returns the zone
\* named as the domain, 3 detected descriptors, 3 replicated records, no
\* errors and 3 next steps.
C12_EndToEnd ==
    Done("migrate") /\ zonesCreated # <<>> /\ NoProbeFailed /\ createFailed = 0
       => /\ "name" \in DOMAIN result.zone
          /\ result.zone.name = Domain
          /\ Len(result.detected) = 3
          /\ Len(result.replicated) = 3
          /\ result.errors = <<>>
          /\ Len(result.nextSteps) = 3

----------------------------------------------------------------------------
(* Propagation check *)

\* the same name up to the case of its letters
SameIgnoringCase(s, t) ==
    /\ Len(s) = Len(t)
    /\ \A n \in 1..Len(s) :
          \/ s[n] = t[n]
          \/ {s[n], t[n]} \in {{"n", "N"}, {"s", "S"}}

\* the resolver reported Status 0 with an Answer in which every expected
\* name is the data of an answer of type code 2
Propagated(expected, resp) ==
    /\ resp.kind = "json" /\ resp.Status = 0 /\ resp.hasAnswer
    /\ \A e \in 1..Len(expected) :
          \E n \in 1..Len(resp.Answer) :
             /\ resp.Answer[n].type = 2
             /\ "data" \in DOMAIN resp.Answer[n]
             /\ SameIgnoringCase(resp.Answer[n].data, expected[e])

\* C13: checkPropagation never throws; it returns true only if the resolver
\* reported Status 0 with an Answer and every expected name equals, ignoring
\* letter case, the data of some answer of type code 2; it returns false on a
\* transport or parsing failure, a non-zero Status and a missing Answer.
C13_Propagation ==
    Done("check")
       => /\ ~result.threw
          /\ ValueOf(result) => Propagated(args.expected, answered[1])
          /\ (answered[1].kind # "json" \/ answered[1].Status # 0
                 \/ ~answered[1].hasAnswer) => ~ValueOf(result)

\* true was returned for an expected name that differs in case from the
\* answer's data, beside an answer of another type
C13_Witness ==
    /\ Done("check")
    /\ ValueOf(result)
    /\ \E e \in 1..Len(args.expected) :
          \A n \in 1..Len(answered[1].Answer) :
             answered[1].Answer[n].data # args.expected[e]
    /\ \E n \in 1..Len(answered[1].Answer) : answered[1].Answer[n].type # 2

----------------------------------------------------------------------------
(* Zone files *)

\* the lines the specification lets the parser emit a descriptor for
SpecifiedDirective(line) ==
    \/ StartsWith(line.fields[1], <<"$", "T", "T", "L">>)
    \/ StartsWith(line.fields[1], <<"$", "O", "R", "I", "G", "I", "N">>)

SpecifiedRecordLine(line) ==
    /\ line.fields # <<>>
    /\ Head(line.fields[1]) # ";"
    /\ ~SpecifiedDirective(line)
    /\ Len(line.fields) >= 4
    /\ \E type \in {"A", "AAAA", "CNAME", "MX", "TXT", "NS", "SRV", "CAA"} :
          TypeChars(type) = line.fields[4]

\* the positions of the record lines among lines, in order
RecordLines(lines) ==
    SelectSeq([n \in 1..Len(lines) |-> n],
              LAMBDA n : SpecifiedRecordLine(lines[n]))

\* the name without one trailing dot
Undotted(name) ==
    IF name # <<>> /\ name[Len(name)] = "." THEN SubSeq(name, 1, Len(name) - 1)
    ELSE name

\* the lines before position n that satisfy Is, latest first
Preceding(lines, n, Is(_)) ==
    {m \in 1..(n - 1) : Is(lines[m]) /\ \A k \in (m + 1)..(n - 1) : ~Is(lines[k])}

IsOriginLine(line) ==
    line.fields # <<>> /\ line.fields[1] = <<"$", "O", "R", "I", "G", "I", "N">>

IsTtlLine(line) ==
    line.fields # <<>> /\ line.fields[1] = <<"$", "T", "T", "L">>

\* the origin in force at line n: that of the most recent $ORIGIN line before
\* it, the empty string when there is none
OriginAt(lines, n) ==
    IF Preceding(lines, n, IsOriginLine) = {} THEN <<>>
    ELSE Undotted(lines[CHOOSE m \in Preceding(lines, n, IsOriginLine) : TRUE]
                     .fields[2])

\* the default TTL in force at line n: that of the most recent $TTL line
\* before it, 300 when there is none
DefaultTtlAt(lines, n) ==
    IF Preceding(lines, n, IsTtlLine) = {} THEN Num(300)
    ELSE parseInt(lines[CHOOSE m \in Preceding(lines, n, IsTtlLine) : TRUE]
                     .fields[2])

\* C15: exporting a record set of a zone and parsing the text reproduces the
\* same set of {type, name, content} triples, with TTL and priority as they
\* were.
C15_RoundTrip ==
    Done("roundTrip")
       => /\ ~result.threw
          /\ { [type |-> r.type, name |-> r.name, content |-> r.content,
                ttl |-> r.ttl, priority |-> Member(r, "priority")] :
                  r \in {ValueOf(result)[n] : n \in 1..Len(ValueOf(result))} }
             = { [type |-> r.type, name |-> r.name, content |-> r.content,
                  ttl |-> r.ttl, priority |-> Member(r, "priority")] :
                    r \in {args.records[n] : n \in 1..Len(args.records)} }

\* C16: the parser is forward-only: the name @ of a record line is the
\* origin of the most recent $ORIGIN line before it, the empty string when
\* none precedes it; a record line without a numeric TTL gets the TTL of the
\* most recent $TTL line before it, 300 when none precedes it.
C16_ForwardOnly ==
    Done("parse") /\ ~result.threw
       => /\ Len(ValueOf(result)) = Len(RecordLines(args.lines))
          /\ \A k \in 1..Len(RecordLines(args.lines)) :
                LET n == RecordLines(args.lines)[k]
                    line == args.lines[n]
                    record == ValueOf(result)[k]
                IN  /\ line.fields[1] = <<"@">>
                          => record.name = OriginAt(args.lines, n)
                    /\ parseInt(line.fields[2]).k # "number"
                          => record.ttl = DefaultTtlAt(args.lines, n)

\* an @ record before the first $ORIGIN line and after none, and a record
\* without a TTL between two directives
C16_Witness ==
    /\ Done("parse") /\ ~result.threw
    /\ Len(args.lines) = 3
    /\ IsTtlLine(args.lines[1])
    /\ SpecifiedRecordLine(args.lines[2])
    /\ args.lines[2].fields[1] = <<"@">>
    /\ parseInt(args.lines[2].fields[2]).k # "number"
    /\ IsOriginLine(args.lines[3])
    /\ ValueOf(result)[1].name = <<>>
    /\ ValueOf(result)[1].ttl = Num(600)

\* C17: the parser emits a descriptor for exactly the lines that are not
\* blank, not a comment, not a directive, have at least 4 fields and a 4th
\* field among A, AAAA, CNAME, MX, TXT, NS, SRV, CAA; every other line is
\* skipped without an error; an MX line with a 5th field gets it parsed as
\* its priority.
C17_Emission ==
    Done("parse")
       => /\ ~result.threw
          /\ Len(ValueOf(result)) = Len(RecordLines(args.lines))
          /\ \A k \in 1..Len(RecordLines(args.lines)) :
                LET line == args.lines[RecordLines(args.lines)[k]]
                    record == ValueOf(result)[k]
                IN  /\ TypeChars(record.type) = line.fields[4]
                    /\ (record.type = "MX" /\ Len(line.fields) >= 5)
                          => /\ "priority" \in DOMAIN record
                             /\ record.priority = parseInt(line.fields[5])

----------------------------------------------------------------------------
(* Zone validation *)

\* the issues the specification gives a zone and its records: one for each
\* of the three conditions that is violated
SpecifiedIssues(z, listed) ==
    (IF z.status # "active"
     THEN << <<"Zone status is ", z.status, ", should be active">> >>
     ELSE <<>>)
    \o (IF z.name_servers = <<>>
        THEN << <<"No nameservers found for zone">> >> ELSE <<>>)
    \o (IF listed = <<>>
        THEN << <<"No DNS records found in zone">> >> ELSE <<>>)

\* every call validate_zone_setup made was answered by a success envelope
\* that carries the zone, respectively the records
AllDelivered ==
    /\ calls # <<>>
    /\ Len(delivered) = Len(calls)

\* C14: when the provider answers validateZoneSetup's calls with the zone and
\* with its records, the operation returns one issue for each violated
\* condition (status not active, no name servers, no records) and
\* valid = (issues.length = 0); a pending zone with name servers and no
\* records gets exactly two issues
C14_Issues ==
    (Done("validate") /\ AllDelivered)
    => /\ Len(delivered) = 2
       /\ result.issues = SpecifiedIssues(delivered[1].result.items[1],
                                          delivered[2].result.items)
       /\ result.valid = (result.issues = <<>>)
       /\ (/\ delivered[1].result.items[1].status = "pending"
           /\ delivered[1].result.items[1].name_servers # <<>>
           /\ delivered[2].result.items = <<>>)
          => (~result.valid /\ Len(result.issues) = 2)

----------------------------------------------------------------------------
(* Missing configuration *)

\* the messages that say the token or a zone id is not configured
ConfigurationMissing ==
    {"Cloudflare API Token not configured",
     "Cloudflare Zone ID not configured",
     "Zone ID not provided and not configured"}

\* the single operations of the provider client, and the tools that are one
\* call of them after another
SingleOperations == {"create", "validate", "export", "migrate"}

\* the messages with which the finished operation reports its failure
FailureMessages ==
    CASE op \in {"create", "export"} ->
           IF result.threw THEN {result.error} ELSE {}
      [] op = "validate" ->
           IF result.valid THEN {}
           ELSE {result.issues[n] : n \in 1..Len(result.issues)}
      [] op = "migrate" ->
           {result.errors[n] : n \in 1..Len(result.errors)}
      [] OTHER -> {}

\* the arguments pass the validation that precedes the first call
ValidArguments ==
    CASE op = "create" -> CreateDnsRecordRequestValid(args.record)
      [] op = "migrate" -> args.zoneType \in {"", "full", "partial"}
      [] OTHER -> TRUE

\* the operation addresses the default zone with its first call
AddressesDefaultZone ==
    \/ op \in {"create", "export"}
    \/ op = "validate" /\ args.zoneId = ""

FailedForConfiguration ==
    /\ calls = <<>>
    /\ \E message \in FailureMessages :
          \E n \in 1..Len(message) : message[n] \in ConfigurationMissing

----------------------------------------------------------------------------
(* Rejections by the provider *)

\* message.includes(part)
ContainsSeq(message, part) ==
    \E k \in 0..(Len(message) - Len(part)) :
       SubSeq(message, k + 1, k + Len(part)) = part

\* the response that ended the operation is an envelope with success = false
RejectedByProvider ==
    /\ lastResponse.fetch = "response"
    /\ lastResponse.json
    /\ lastResponse.body.wellFormed
    /\ ~lastResponse.body.success

\* C19: an operation of the provider client whose call the provider answers
\* with an envelope having success = false, under whatever HTTP status,
\* fails with a message that contains the envelope's error messages joined
\* by ", "
C19_Rejected ==
    (pc = "done" /\ op \in SingleOperations /\ RejectedByProvider)
    => \E message \in FailureMessages :
          ContainsSeq(message, Join(lastResponse.body.errors, ", "))

----------------------------------------------------------------------------
(* Direct import *)

\* the records of the input that pass the record validation
Acceptable(imported) ==
    {n \in 1..Len(imported) : DnsRecordImportValid(imported[n])}

\* C20: an import into a named zone never aborts on one record: whatever
\* records the input holds (one of them may fail the record validation, any
\* may be rejected by the provider), a create-record attempt is made for
\* every acceptable record and the operation returns the created records
\* instead of throwing
C20_NeverAborts ==
    (Done("import") /\ args.zoneId # "")
    => /\ ~result.threw
       /\ Len(createdRecords) + createFailed
            >= Cardinality(Acceptable(args.records))
       /\ ValueOf(result) = createdRecords

----------------------------------------------------------------------------
(* Timeouts *)

\* the operations claim C21 names
TimedOperations == {"detect", "replicate", "check", "migrate"}

\* C21: every outbound call is bounded by a timeout, so detect, replicate,
\* checkPropagation and migrateWithDetection, once invoked, eventually
\* complete even when a peer never responds
C21_Completes == (op \in TimedOperations) ~> (pc = "done")

----------------------------------------------------------------------------
(* Credentials under interleaving *)

\* the calls addressed to the default zone
DefaultZoneCalls == SelectSeq(calls, LAMBDA call : call.endpoint = "dns_records")

\* C22: the credentials are read-only once written, so all provider calls of
\* one invocation carry the same token, and those addressed to the default
\* zone the same zone id, whatever other invocations run in between
C22_SameCredentials ==
    /\ \A m, n \in 1..Len(calls) : calls[m].token = calls[n].token
    /\ \A m, n \in 1..Len(DefaultZoneCalls) :
          DefaultZoneCalls[m].zone = DefaultZoneCalls[n].zone

----------------------------------------------------------------------------
(* Failures after the zone creation *)

\* C23: replicate and migrateWithDetection return a result and never throw;
\* once the provider has created the zone of a migration, the result carries
\* that zone (its id, its name servers) and not the empty placeholder,
\* whatever fails afterwards
C23_NeverThrows ==
    /\ Done("replicate")
          => DOMAIN result = {"detected", "replicated", "errors"}
    /\ Done("migrate")
          => DOMAIN result
               = {"zone", "detected", "replicated", "errors", "nextSteps"}
    /\ (Done("migrate") /\ zonesCreated # <<>>)
          => /\ DOMAIN result.zone # {}
             /\ result.zone.id = zonesCreated[1].id
             /\ result.zone.name_servers = zonesCreated[1].name_servers

----------------------------------------------------------------------------
(* The records a validation looks at *)

\* the provider has delivered the zone the validation asked for
ZoneDelivered ==
    /\ delivered # <<>>
    /\ delivered[1].call = 1
    /\ delivered[1].result.kind = "object"

\* C24: a validation of the zone zoneId, to which the provider has delivered
\* that zone, asks for the records of that same zone and reports the missing
\* records exactly when that zone has none, also when zoneId is not the
\* configured default zone
C24_RecordsOfZone ==
    (Done("validate") /\ args.zoneId # "" /\ ZoneDelivered
     /\ Len(delivered) = Len(calls))
    => /\ \E n \in 1..Len(calls) :
             /\ calls[n].endpoint = "dns_records"
             /\ calls[n].method = "GET"
             /\ calls[n].zone = args.zoneId
       /\ (\E n \in 1..Len(result.issues) :
              result.issues[n] = <<"No DNS records found in zone">>)
          <=> AccountRecords(args.zoneId) = <<>>

----------------------------------------------------------------------------
(* Batch operations without authentication *)

\* C25: replicate, and import of at least one valid record, invoked while no
\* API token is configured abort before any partial work: no resolver probe
\* is sent, no create-record attempt is made, and the caller gets a failure
\* (import throws, replicate returns errors) instead of a result without
\* errors
C25_AbortsEarly ==
    (/\ pc = "done"
     /\ \/ op = "replicate"
        \/ op = "import" /\ Acceptable(args.records) # {}
     /\ cloudflareConfig.apiToken = "")
    => /\ queries = <<>>
       /\ createFailed = 0
       /\ calls = <<>>
       /\ op = "import" => result.threw
       /\ op = "replicate" => result.errors # <<>>

----------------------------------------------------------------------------
(* Zones in the envelope *)

\* the calls of createZone and getZone
IsZoneCall(call) ==
    \/ call.endpoint = "zones" /\ call.method = "POST"
    \/ call.endpoint \in {ZonePath(id) : id \in ZoneIds} /\ call.method = "GET"

\* C26: when the provider answers createZone or getZone with a well-formed
\* success envelope whose result is one zone object, the operation returns
\* that zone, with the provider's id, name, status and name servers
C26_ZoneAccepted ==
    \A n \in 1..Len(delivered) :
       (/\ IsZoneCall(calls[delivered[n].call])
        /\ delivered[n].result.kind = "object"
        /\ CloudflareZoneValid(delivered[n].result.items[1]))
       => /\ DOMAIN zone # {}
          /\ zone.id = delivered[n].result.items[1].id
          /\ zone.name = delivered[n].result.items[1].name
          /\ zone.status = delivered[n].result.items[1].status
          /\ zone.name_servers = delivered[n].result.items[1].name_servers

----------------------------------------------------------------------------
(* Replicated records and their descriptors *)

\* what identifies the descriptor in a descriptor, in the request made for
\* it and in the record the provider returns for it
Origin(o) == <<o.type, o.name, o.content>>

\* s can be obtained from t by deleting elements
RECURSIVE IsSubsequence(_, _)
IsSubsequence(s, t) ==
    IF s = <<>> THEN TRUE
    ELSE IF t = <<>> THEN FALSE
    ELSE IF Head(s) = Head(t) THEN IsSubsequence(Tail(s), Tail(t))
    ELSE IsSubsequence(s, Tail(t))

\* the bodies of the create-record requests, in the order sent
CreateBodies == Map(CreateCalls(calls), LAMBDA call : call.body)

\* C27: in every result of replicate, replicated is no longer than detected;
\* the create calls were made for detected descriptors, at most one each, in
\* detection order; every replicated record is the record the provider
\* returned for one of those calls (its id is the number of the call, and
\* the call was made for its descriptor), in the order of the calls
C27_OrderPreserved ==
    Done("replicate")
    => /\ Len(result.replicated) <= Len(result.detected)
       /\ IsSubsequence(Map(CreateBodies, Origin),
                        Map(detectedRecords, Origin))
       /\ IsSubsequence(Map(result.replicated, Origin),
                        Map(result.detected, Origin))
       /\ \A n \in 1..Len(result.replicated) :
             /\ result.replicated[n].id \in 1..Len(calls)
             /\ Origin(calls[result.replicated[n].id].body)
                  = Origin(result.replicated[n])
             /\ \E e \in 1..Len(delivered) :
                   /\ delivered[e].call = result.replicated[n].id
                   /\ delivered[e].result.kind = "object"
             /\ n > 1 => result.replicated[n - 1].id < result.replicated[n].id

\* a replication of three descriptors or more, of which two were created
\* and one in between or around them was not
C27_Witness ==
    /\ Done("replicate")
    /\ Len(result.detected) >= 3
    /\ Len(result.replicated) = 2
    /\ Origin(result.replicated[1]) # Origin(result.replicated[2])
    /\ createFailed >= 1

----------------------------------------------------------------------------
(* The TTL of a descriptor *)

\* the ttl the specification gives the descriptor of an answer: the TTL the
\* resolver supplied, 300 when it supplied none
SpecifiedTtl(answer) ==
    IF answer.TTL.k = "number" THEN answer.TTL ELSE Num(300)

\* C28: the descriptor of every accepted answer has the TTL the resolver
\* supplied for the answer, also when that TTL is 0, and 300 only when the
\* resolver supplied none
C28_TtlPreserved ==
    \A n \in 1..NumProbes :
       LET descriptors == Group(detectedRecords, n)
           accepted == Accepted(answered, n)
       IN  Len(descriptors) = Len(accepted)
           => \A k \in 1..Len(descriptors) :
                 descriptors[k].ttl = SpecifiedTtl(accepted[k])

----------------------------------------------------------------------------
(* Zone-file import *)

\* C29: importZoneFile returns a result and never throws; when the parser
\* accepts the file, every record it produced is attempted once and counted
\* once, among the imported records or among the errors, and the records
\* are created in the zone given as zoneId when one is given
C29_ZoneFileImport ==
    Done("importZoneFile")
    => /\ DOMAIN result = {"imported", "errors"}
       /\ ~parseZoneFile(args.zoneFileContent).threw
             => LET parsed == ValueOf(parseZoneFile(args.zoneFileContent))
                IN  /\ Len(result.imported) + Len(result.errors) = Len(parsed)
                    /\ Len(result.imported) + createFailed = Len(parsed)
       /\ args.zoneId # ""
             => \A n \in 1..Len(calls) : calls[n].zone = args.zoneId

----------------------------------------------------------------------------
(* Zone-file export *)

\* the lines of a text that are record lines: those after the header
ExportedRecordLines(text) ==
    SelectSeq(Split(text, "\n"),
              LAMBDA line : line # <<>> /\ ~StartsWith(line, <<"$">>))

\* C30: when the provider delivers the records and the zone an export asks
\* for, exportZoneFile(zoneId) returns a text whose $ORIGIN header names the
\* zone zoneId (the default zone when zoneId is omitted) and whose record
\* lines are those of the records of that same zone, one line per record,
\* the apex written as @
C30_SelfConsistent ==
    (Done("export") /\ Len(calls) = 2 /\ Len(delivered) = 2)
    => LET exported == AccountZone(targetZone)
           zoneRecords == AccountRecords(targetZone)
       IN  /\ ~result.threw
           /\ StartsWith(ValueOf(result),
                         <<"$", "O", "R", "I", "G", "I", "N", " ">>
                         \o exported.name \o <<".", "\n">>)
           /\ Len(ExportedRecordLines(ValueOf(result))) = Len(zoneRecords)
           /\ \A n \in 1..Len(zoneRecords) :
                 /\ ExportedRecordLines(ValueOf(result))[n] \o <<"\n">>
                      = ZoneFileLine(zoneRecords[n], exported)
                 /\ zoneRecords[n].name = exported.name
                       => Head(ExportedRecordLines(ValueOf(result))[n]) = "@"

====
